---- MODULE Spec2Model ----
(***************************************************************************)
(* A model of salt's pillar compiler (pillar/__init__.py): the Pillar      *)
(* class (top files, data-file rendering, external sources, decryption),   *)
(* and the PillarCache wrapper.                                            *)
(*                                                                         *)
(* Python values are tagged records, so that values of different kinds can *)
(* be compared:  None, an integer scalar, a string (a tuple of words: a    *)
(* message id and its arguments), a dict (a function from string keys to   *)
(* values) and a list (a sequence of values).  An exception is the record  *)
(* Raise(name) in the place of the value the call would have returned.     *)
(***************************************************************************)
EXTENDS Integers, Sequences, FiniteSets, TLC

\* ------------------------------------------------------------- bounds
\* the configured ext_pillar list has at most MaxExt entries
MaxExt == 2
\* the key of an include names a path of at most MaxKey segments
MaxKey == 3
\* a merged top has at most MaxTargets targets per environment, with
\* recorded orders in 0..MaxOrder
MaxTargets == 3
MaxOrder == 2
\* the cache is watched for at most MaxFetch compiles
MaxFetch == 3
\* decrypt_pillar names at most MaxDecrypt paths
MaxDecrypt == 2
MaxDepth == 4

\* ------------------------------------------------------- python values
None == [k |-> "none"]
Scalar(n) == [k |-> "scalar", s |-> n]
Str(t) == [k |-> "str", t |-> t]
Dict(f) == [k |-> "dict", d |-> f]
List(l) == [k |-> "list", l |-> l]
Raise(e) == [k |-> "raise", e |-> e]

\* the empty mapping {}
Empty == Dict([y \in {} |-> None])

\* the keys of a mapping
Keys(v) == IF DOMAIN v.d = {} THEN {} ELSE DOMAIN v.d

IsDict(v) == v.k = "dict"
IsList(v) == v.k = "list"
IsRaise(v) == v.k = "raise"

\* python truth value of v (if v: ...)
Truthy(v) ==
  CASE v.k = "none" -> FALSE
    [] v.k = "scalar" -> v.s # 0
    [] v.k = "str" -> v.t # <<>>
    [] v.k = "dict" -> Keys(v) # {}
    [] v.k = "list" -> v.l # <<>>
    [] OTHER -> TRUE

\* key in d  /  d.get(key, None)  /  d[key] = v  /  d.pop(key)
HasKey(v, key) == key \in Keys(v)
Get(v, key) == IF key \in Keys(v) THEN v.d[key] ELSE None
Put(v, key, x) == Dict([y \in Keys(v) \cup {key} |-> IF y = key THEN x ELSE v.d[y]])
Pop(v, key) == Dict([y \in Keys(v) \ {key} |-> v.d[y]])
One(key, x) == Dict([y \in {key} |-> x])

\* salt.utils.dictupdate.merge under the 'smart'/'recurse' strategy without
\* pillar_merge_lists: a deep copy of obj_a updated with obj_b, mappings
\* merged key by key, everything else replaced by obj_b's value; a TypeError
\* when either side is not a mapping.
RECURSIVE update(_, _)
update(dest, upd) ==
  Dict([y \in Keys(dest) \cup Keys(upd) |->
          IF y \notin Keys(upd) THEN dest.d[y]
          ELSE IF y \in Keys(dest) /\ IsDict(dest.d[y]) /\ IsDict(upd.d[y])
               THEN update(dest.d[y], upd.d[y])
               ELSE upd.d[y]])

merge(obj_a, obj_b) ==
  IF IsRaise(obj_a) THEN obj_a
  ELSE IF IsRaise(obj_b) THEN obj_b
  ELSE IF ~IsDict(obj_a) \/ ~IsDict(obj_b) THEN Raise("TypeError")
  ELSE update(obj_a, obj_b)

\* str.split(delim) on a string given as the sequence of its characters:
\* the pieces between the delimiters, each piece joined into one key.
RECURSIVE JoinChars(_)
JoinChars(cs) == IF cs = <<>> THEN "" ELSE Head(cs) \o JoinChars(Tail(cs))

RECURSIVE SplitFrom(_, _, _)
SplitFrom(cs, delim, cur) ==
  IF cs = <<>> THEN <<JoinChars(cur)>>
  ELSE IF Head(cs) = delim
       THEN <<JoinChars(cur)>> \o SplitFrom(Tail(cs), delim, <<>>)
       ELSE SplitFrom(Tail(cs), delim, Append(cur, Head(cs)))

split(cs, delim) == SplitFrom(cs, delim, <<>>)

reversed(s) == [i \in 1..Len(s) |-> s[Len(s) + 1 - i]]

\* ------------------------------------------------ ordered mappings
\* An OrderedDict (and a dict, in insertion order) whose order the code
\* reads is a sequence of [key, val] entries with distinct keys.
OHas(od, key) == \E i \in 1..Len(od) : od[i].key = key
OIndex(od, key) == CHOOSE i \in 1..Len(od) : od[i].key = key
OGet(od, key, default) == IF OHas(od, key) THEN od[OIndex(od, key)].val ELSE default
OSet(od, key, val) ==
  IF OHas(od, key) THEN [od EXCEPT ![OIndex(od, key)].val = val]
  ELSE Append(od, [key |-> key, val |-> val])
OKeys(od) == [i \in 1..Len(od) |-> od[i].key]

Contains(s, e) == \E i \in 1..Len(s) : s[i] = e
AppendNew(s, e) == IF Contains(s, e) THEN s ELSE Append(s, e)

\* ------------------------------------------------------- top files
\* A rendered top file (a fragment) is
\*   [k |-> "dict", secs, include]: secs the ordered saltenv -> targets
\*       entries, include None (no such key), a list of names, or a scalar;
\*   [k |-> "list"] or [k |-> "scalar"]: a top file that renders to no mapping.
\* targets is [k |-> "dict", tgts] (ordered target -> comps) or None;
\* comps is [k |-> "list", l] or None; a comp is a state name
\* [ck |-> "str", name] or a mapping [ck |-> "dict", match, order, ignore_missing]
\* where order is NoOrder or an order literal [ok, n].
Frag(secs, include) == [k |-> "dict", secs |-> secs, include |-> include]
EmptyFrag == Frag(<<>>, None)
Names(l) == [k |-> "list", l |-> l]
Targets(tgts) == [k |-> "dict", tgts |-> tgts]
Comps(l) == [k |-> "list", l |-> l]
NoOrder == [ok |-> "absent", n |-> 0]
Sls(name) == [ck |-> "str", name |-> name, match |-> FALSE, order |-> NoOrder,
              ignore_missing |-> FALSE]
Meta(match, order, ignore_missing) ==
  [ck |-> "dict", name |-> "", match |-> match, order |-> order,
   ignore_missing |-> ignore_missing]

\* What fetching and rendering a top file gives: Absent (no such file),
\* Raise(..) (compile_template raises) or a fragment.
Absent == [k |-> "absent"]

\* get_tops, lines 423-476: the initial top files.  envs is the order in
\* which _get_envs() is iterated.  The try statement encloses the whole
\* scan, so the first failing top file ends it.
RECURSIVE ScanTops(_, _, _, _)
ScanTops(envs, self, tops, errors) ==
  IF envs = <<>> THEN [tops |-> tops, errors |-> errors]
  ELSE
    LET saltenv == Head(envs)
        skip == self.opts.pillar_source_merging_strategy = "none"
                /\ \/ (self.saltenv # "" /\ saltenv # self.saltenv)
                   \/ (self.saltenv = "" /\ saltenv # "base")
        top == self.top_files[saltenv]
    IN IF skip \/ top = Absent THEN ScanTops(Tail(envs), self, tops, errors)
       ELSE IF IsRaise(top)
            THEN [tops |-> OSet(tops, saltenv, OGet(tops, saltenv, <<>>)),
                  errors |-> Append(errors, Str(<<"Rendering Primary Top file failed">>))]
            ELSE ScanTops(Tail(envs), self,
                          OSet(tops, saltenv, Append(OGet(tops, saltenv, <<>>), top)),
                          errors)

InitialTops(self, envs) ==
  IF self.opts.pillarenv # ""
  THEN IF self.opts.pillarenv \notin self.opts.file_roots
       THEN [tops |-> <<>>, errors |-> <<>>]
       ELSE LET top == self.top_files[self.opts.pillarenv]
            IN IF IsRaise(top)
               THEN [tops |-> <<>>,
                     errors |-> <<Str(<<"Rendering Primary Top file failed">>)>>]
               ELSE [tops |-> <<[key |-> self.opts.pillarenv,
                                 val |-> <<IF top = Absent THEN EmptyFrag ELSE top>>]>>,
                     errors |-> <<>>]
  ELSE ScanTops(envs, self, <<>>, <<>>)

\* get_tops, lines 479-485: the includes of the initial fragments of one
\* environment, and the fragments with their include key popped.
RECURSIVE SearchIncludes(_, _, _)
SearchIncludes(ctops, done, include) ==
  IF ctops = <<>> THEN [exc |-> "", ctops |-> done, include |-> include]
  ELSE LET ctop == Head(ctops) IN
    IF ctop.k = "scalar" THEN [exc |-> "TypeError", ctops |-> done, include |-> include]
    ELSE IF ctop.k = "list" \/ ctop.include = None
    THEN SearchIncludes(Tail(ctops), Append(done, ctop), include)
    ELSE IF ctop.include.k # "list"
    THEN [exc |-> "TypeError", ctops |-> done, include |-> include]
    ELSE SearchIncludes(Tail(ctops), Append(done, [ctop EXCEPT !.include = None]),
                        include \o ctop.include.l)

\* get_tops, lines 493-515: the pending includes of one environment.
RECURSIVE PullIncludes(_, _, _, _, _, _)
PullIncludes(states, self, saltenv, ctops, done, errors) ==
  IF states = <<>> THEN [ctops |-> ctops, errors |-> errors]
  ELSE LET sls == Head(states) IN
    IF Contains(done, sls)
    THEN PullIncludes(Tail(states), self, saltenv, ctops, done, errors)
    ELSE LET top == IF sls \in DOMAIN self.top_includes[saltenv]
                    THEN self.top_includes[saltenv][sls] ELSE Absent IN
      IF IsRaise(top)
      THEN PullIncludes(Tail(states), self, saltenv, ctops, Append(done, sls),
                        Append(errors, Str(<<"Rendering Top file failed", sls>>)))
      ELSE PullIncludes(Tail(states), self, saltenv,
                        Append(ctops, IF top = Absent THEN EmptyFrag ELSE top),
                        Append(done, sls), errors)

\* get_tops, lines 478-520, environment by environment: each environment's
\* includes are those of its initial fragments, so both loops can be run
\* for one environment after the other.
RECURSIVE IncludeTops(_, _, _, _)
IncludeTops(tops, i, self, errors) ==
  IF i > Len(tops) THEN [exc |-> "", tops |-> tops, errors |-> errors]
  ELSE LET found == SearchIncludes(tops[i].val, <<>>, <<>>) IN
    IF found.exc # "" THEN [exc |-> found.exc, tops |-> tops, errors |-> errors]
    ELSE LET pulled == PullIncludes(found.include, self, tops[i].key, found.ctops,
                                    <<>>, errors)
         IN IncludeTops([tops EXCEPT ![i].val = pulled.ctops], i + 1, self,
                        pulled.errors)

get_tops(self, envs) ==
  LET initial == InitialTops(self, envs)
  IN IncludeTops(initial.tops, 1, self, initial.errors)

\* merge_tops, lines 543-549: the order a target records.  int() keeps an
\* integer, parses a numeric string, truncates a float, raises ValueError
\* (caught: 0) for any other string and TypeError for None.
CoerceOrder(order) ==
  CASE order.ok = "int" -> [exc |-> "", n |-> order.n]
    [] order.ok = "numstr" -> [exc |-> "", n |-> order.n]
    [] order.ok = "float" -> [exc |-> "", n |-> order.n]
    [] order.ok = "badstr" -> [exc |-> "", n |-> 0]
    [] OTHER -> [exc |-> "TypeError", n |-> 0]

\* merge_tops, lines 538-553: the comps of one target.
RECURSIVE ScanComps(_, _)
ScanComps(comps, acc) ==
  IF comps = <<>> \/ acc.exc # "" THEN acc
  ELSE LET comp == Head(comps) IN
    IF comp.ck = "str"
    THEN ScanComps(Tail(comps), [acc EXCEPT !.states = AppendNew(@, comp.name)])
    ELSE LET order == IF comp.order = NoOrder THEN [exc |-> "", n |-> acc.order]
                      ELSE CoerceOrder(comp.order)
         IN ScanComps(Tail(comps),
               [acc EXCEPT !.matches = IF comp.match THEN Append(@, comp) ELSE @,
                           !.order = order.n,
                           !.exc = order.exc,
                           !.ignore_missing = @ \/ comp.ignore_missing])

\* merge_tops, lines 533-559: the targets of one saltenv section.  acc holds
\* top and orders (saltenv -> target -> ..., ordered) and ignored_pillars.
RECURSIVE MergeTargets(_, _, _)
MergeTargets(tgts, saltenv, acc) ==
  IF tgts = <<>> \/ acc.exc # "" THEN acc
  ELSE LET tgt == Head(tgts).key
           comps == Head(tgts).val
    IN IF comps.k # "list" THEN [acc EXCEPT !.exc = "TypeError"]
       ELSE
         LET r == ScanComps(comps.l, [exc |-> "", matches |-> <<>>, states |-> <<>>,
                                      order |-> 0, ignore_missing |-> FALSE])
             body == r.matches \o [i \in 1..Len(r.states) |-> Sls(r.states[i])]
         IN IF r.exc # "" THEN [acc EXCEPT !.exc = r.exc]
            ELSE MergeTargets(Tail(tgts), saltenv,
                  [acc EXCEPT
                     !.top = OSet(@, saltenv, OSet(OGet(@, saltenv, <<>>), tgt, body)),
                     !.orders = OSet(@, saltenv, OSet(OGet(@, saltenv, <<>>), tgt, r.order)),
                     !.ignored_pillars =
                        IF r.ignore_missing
                        THEN OSet(@, saltenv, OGet(@, saltenv, <<>>) \o r.states)
                        ELSE @])

\* merge_tops, lines 530-533: the sections of one fragment.
RECURSIVE MergeSections(_, _)
MergeSections(secs, acc) ==
  IF secs = <<>> \/ acc.exc # "" THEN acc
  ELSE LET targets == Head(secs).val IN
    IF targets.k # "dict" THEN [acc EXCEPT !.exc = "TypeError"]
    ELSE MergeSections(Tail(secs), MergeTargets(targets.tgts, Head(secs).key, acc))

\* merge_tops, lines 528-530: every fragment of every environment.
\* six.iteritems of a fragment that is no mapping raises AttributeError.
RECURSIVE MergeFragments(_, _)
MergeFragments(ctops, acc) ==
  IF ctops = <<>> \/ acc.exc # "" THEN acc
  ELSE IF Head(ctops).k # "dict" THEN [acc EXCEPT !.exc = "AttributeError"]
  ELSE MergeFragments(Tail(ctops), MergeSections(Head(ctops).secs, acc))

RECURSIVE MergeAllTops(_, _, _)
MergeAllTops(tops, i, acc) ==
  IF i > Len(tops) \/ acc.exc # "" THEN acc
  ELSE MergeAllTops(tops, i + 1, MergeFragments(tops[i].val, acc))

\* sorted(targets, key=...): python's sort is stable; here an insertion sort
\* that puts each target behind every target whose order is not greater.
RECURSIVE InsertBeforeEqual(_, _, _)
InsertBeforeEqual(sorted, e, orders) ==
  IF sorted = <<>> THEN <<e>>
  ELSE IF OGet(orders, Head(sorted).key, 0) < OGet(orders, e.key, 0)
       THEN <<Head(sorted)>> \o InsertBeforeEqual(Tail(sorted), e, orders)
       ELSE <<e>> \o sorted

RECURSIVE InsertByOrder(_, _, _)
InsertByOrder(sorted, e, orders) ==
  IF sorted = <<>> THEN <<e>>
  ELSE IF OGet(orders, Head(sorted).key, 0) <= OGet(orders, e.key, 0)
       THEN <<Head(sorted)>> \o InsertByOrder(Tail(sorted), e, orders)
       ELSE <<e>> \o sorted

RECURSIVE SortedTargets(_, _, _)
SortedTargets(targets, i, orders) ==
  IF i = 0 THEN <<>>
  ELSE InsertByOrder(SortedTargets(targets, i - 1, orders), targets[i], orders)

\* sort_top_targets, lines 562-574.  sorted_top is a defaultdict: a saltenv
\* gets its entry when its first target is stored.
RECURSIVE SortEnvs(_, _, _)
SortEnvs(top, i, orders) ==
  IF i > Len(top) THEN <<>>
  ELSE LET targets == top[i].val
           env == IF targets = <<>> THEN <<>>
                  ELSE <<[key |-> top[i].key,
                          val |-> SortedTargets(targets, Len(targets),
                                                OGet(orders, top[i].key, <<>>))]>>
       IN env \o SortEnvs(top, i + 1, orders)

sort_top_targets(top, orders) == SortEnvs(top, 1, orders)

\* merge_tops, line 560: the merged top is returned sorted
SortMerged(acc) ==
  [exc |-> acc.exc,
   top |-> IF acc.exc = "" THEN sort_top_targets(acc.top, acc.orders) ELSE <<>>,
   orders |-> acc.orders,
   ignored_pillars |-> acc.ignored_pillars]

\* merge_tops, lines 522-560.  ignored_pillars is the object's field, which
\* the call extends.
merge_tops(tops, ignored_pillars) ==
  SortMerged(MergeAllTops(tops, 1, [exc |-> "", top |-> <<>>, orders |-> <<>>,
                                    ignored_pillars |-> ignored_pillars]))

\* get_top, lines 581-586: only a TypeError of merge_tops is caught.
MergedOrError(got, merged) ==
  IF merged.exc = "TypeError"
  THEN [exc |-> "", top |-> <<>>,
        errors |-> Append(got.errors,
                          Str(<<"Error encountered while rendering pillar top file.">>)),
        ignored_pillars |-> merged.ignored_pillars]
  ELSE [exc |-> merged.exc, top |-> merged.top, errors |-> got.errors,
        ignored_pillars |-> merged.ignored_pillars]

\* get_top, lines 580-581: the tops of get_tops are merged
MergeGathered(self, got) ==
  IF got.exc # ""
  THEN [exc |-> got.exc, top |-> <<>>, errors |-> <<>>,
        ignored_pillars |-> self.ignored_pillars]
  ELSE MergedOrError(got, merge_tops(got.tops, self.ignored_pillars))

\* get_top, lines 576-586.
get_top(self, envs) == MergeGathered(self, get_tops(self, envs))

\* top_matches, lines 588-614.  self.matcher is the set of target
\* expressions that matcher.confirm_top confirms for this minion.
RECURSIVE MatchItems(_, _)
MatchItems(data, env_matches) ==
  IF data = <<>> THEN env_matches
  ELSE MatchItems(Tail(data),
                  IF Head(data).ck = "str" THEN AppendNew(env_matches, Head(data).name)
                  ELSE env_matches)

RECURSIVE MatchTargets(_, _, _, _)
MatchTargets(body, saltenv, confirmed, matches) ==
  IF body = <<>> THEN matches
  ELSE MatchTargets(Tail(body), saltenv, confirmed,
         IF Head(body).key \in confirmed
         THEN OSet(matches, saltenv,
                   MatchItems(Head(body).val, OGet(matches, saltenv, <<>>)))
         ELSE matches)

\* top_matches, lines 597-599: with pillarenv set, every other environment
\* of the top is passed over
NoEnvSkipped(pillarenv, saltenv) == FALSE

OtherEnv(pillarenv, saltenv) == pillarenv # "" /\ saltenv # pillarenv

RECURSIVE MatchEnvs(_, _, _, _, _)
MatchEnvs(top, i, pillarenv, confirmed, matches) ==
  IF i > Len(top) THEN matches
  ELSE MatchEnvs(top, i + 1, pillarenv, confirmed,
         IF OtherEnv(pillarenv, top[i].key) THEN matches
         ELSE MatchTargets(top[i].val, top[i].key, confirmed, matches))

top_matches(self, top) ==
  MatchEnvs(top, 1, self.opts.pillarenv, self.matcher, <<>>)

\* ------------------------------------------------------ data files
\* The names the file client knows, in the order list_states gives them.
SlsOrder == <<"bar", "foo">>
SlsNames == {SlsOrder[i] : i \in 1..Len(SlsOrder)}

\* A string is the tuple of its pieces (single characters where the code
\* splits it); Word(s) is the string of one piece.
Word(s) == Str(<<s>>)
Text(v) == JoinChars(v.t)

\* client.get_state(sls, saltenv) followed by compile_template: Absent (no
\* 'dest'), Raise(..) (the renderer raises) or the rendered value.  A file
\* is found only under a configured pillar root of its environment.
get_state(self, sls, saltenv) ==
  IF saltenv \in self.opts.pillar_roots /\ sls \in DOMAIN self.sls_files[saltenv]
  THEN self.sls_files[saltenv][sls]
  ELSE Absent

\* the renderers the loader builds for opts with the given pillar
Rend(pillar) == [k |-> "rend", pillar |-> pillar]

\* one record of the call log: a data file handed to compile_template
Rendered(sls, saltenv, renderers, defaults) ==
  [sls |-> sls, saltenv |-> saltenv, renderers |-> renderers, defaults |-> defaults]

\* render_pstate, lines 712-716: nstate wrapped under key, split at ':',
\* the last fragment first.
RECURSIVE WrapKey(_, _)
WrapKey(fragments, nstate) ==
  IF fragments = <<>> THEN nstate
  ELSE WrapKey(Tail(fragments), One(Head(fragments), nstate))

NestOutermostLast(key, nstate) == WrapKey(split(key.t, ":"), nstate)

NestUnderKey(key, nstate) == WrapKey(reversed(split(key.t, ":")), nstate)

\* render_pstate, line 627: the missing file is in the ignored set of its
\* environment
AlwaysIgnored(self, sls, saltenv) == TRUE

NeverIgnored(self, sls, saltenv) == FALSE

IsIgnored(self, sls, saltenv) ==
  Contains(OGet(self.ignored_pillars, saltenv, <<>>), sls)

\* render_pstate, lines 709-721: the rendered include sub merged into the
\* state.  acc: exc, state, mods, errors, defaults (the loop rebinds it), log.
MergeIncluded(acc, key, defaults, sub) ==
  LET nstate == IF Truthy(sub.state) /\ Truthy(key)
                THEN NestUnderKey(key, sub.state)
                ELSE sub.state
      state == IF Truthy(sub.state) THEN merge(acc.state, nstate) ELSE acc.state
  IN IF sub.exc # "" THEN [acc EXCEPT !.exc = sub.exc]
     ELSE IF IsRaise(state) THEN [acc EXCEPT !.exc = state.e]
     ELSE [exc |-> "", state |-> state, mods |-> sub.mods,
           errors |-> acc.errors \o sub.errors, defaults |-> defaults,
           log |-> acc.log \o sub.log]

\* render_pstate, lines 698-703: the name, the defaults and the key of one
\* entry of the include list; a bare name leaves defaults as the loop has it
EntryName(entry) ==
  IF IsDict(entry) THEN CHOOSE n \in Keys(entry) : TRUE ELSE Text(entry)
EntryDefaults(entry, defaults) ==
  IF IsDict(entry)
  THEN (IF HasKey(entry.d[EntryName(entry)], "defaults")
        THEN entry.d[EntryName(entry)].d["defaults"] ELSE Empty)
  ELSE defaults
EntryKey(entry) ==
  IF IsDict(entry) THEN Get(entry.d[EntryName(entry)], "key") ELSE None

\* render_pstate, line 704: if sub_sls not in mods
NeverRendered(name, mods) == FALSE

AlreadyRendered(name, mods) == name \in mods

\* render_pstate, lines 616-695: the file itself.  acc is what the call
\* returns when nothing is included (exc, state, mods, errors, defaults,
\* log), includes the entries of its include list.
RenderOwn(self, sls, saltenv, mods, renderers_arg, defaults_arg) ==
  LET renderers == IF renderers_arg = None THEN self.rend ELSE renderers_arg
      defaults == IF defaults_arg = None THEN Empty ELSE defaults_arg
      fn_ == get_state(self, sls, saltenv)
      ignored == IsIgnored(self, sls, saltenv)
      not_available == Str(<<"Specified SLS '", sls, "' in environment '", saltenv,
                             "' is not available on the salt master">>)
      failed == IF self.opts.pillar_safe_render_error
                THEN Str(<<"Rendering SLS '", sls,
                           "' failed. Please see master log for details.">>)
                ELSE Str(<<"Rendering SLS '", sls, "' failed, render error:\n", "exc">>)
      \* compile_template gives {} for a template that is no file name
      state == IF fn_ = Absent THEN Empty ELSE IF IsRaise(fn_) THEN None ELSE fn_
      errors == IF fn_ = Absent THEN <<not_available>>
                ELSE IF IsRaise(fn_) THEN <<failed>> ELSE <<>>
      log == <<Rendered(sls, saltenv, renderers, defaults)>>
      done == [exc |-> "", state |-> state, mods |-> mods \cup {sls},
               errors |-> errors, defaults |-> defaults, log |-> log]
  IN IF fn_ = Absent /\ (ignored \/ saltenv \notin self.opts.pillar_roots)
     THEN [acc |-> [exc |-> "", state |-> None, mods |-> mods, errors |-> <<>>,
                    defaults |-> defaults, log |-> <<>>],
           includes |-> <<>>]
     ELSE IF ~Truthy(state) THEN [acc |-> done, includes |-> <<>>]
     ELSE IF ~IsDict(state)
     THEN [acc |-> [done EXCEPT !.errors = Append(@,
                      Str(<<"SLS '", sls, "' does not render to a dictionary">>))],
           includes |-> <<>>]
     ELSE IF ~HasKey(state, "include") THEN [acc |-> done, includes |-> <<>>]
     ELSE IF ~IsList(state.d["include"])
     THEN [acc |-> [done EXCEPT !.errors = Append(@,
                      Str(<<"Include Declaration in SLS '", sls,
                            "' is not formed as a list">>))],
           includes |-> <<>>]
     ELSE [acc |-> [done EXCEPT !.state = Pop(state, "include")],
           includes |-> state.d["include"].l]

\* render_pstate, lines 616-722, and its include loop, lines 696-721.
RECURSIVE render_pstate(_, _, _, _, _, _)
RECURSIVE IncludeLoop(_, _, _, _)

\* render_pstate, lines 697-709: one entry of the include list
IncludeOne(self, entry, saltenv, acc) ==
  IF AlreadyRendered(EntryName(entry), acc.mods)
  THEN [acc EXCEPT !.defaults = EntryDefaults(entry, acc.defaults)]
  ELSE MergeIncluded(acc, EntryKey(entry), EntryDefaults(entry, acc.defaults),
                     render_pstate(self, EntryName(entry), saltenv, acc.mods,
                                   EntryDefaults(entry, acc.defaults), None))

IncludeLoop(self, includes, saltenv, acc) ==
  IF includes = <<>> \/ acc.exc # "" THEN acc
  ELSE IncludeLoop(self, Tail(includes), saltenv,
                   IncludeOne(self, Head(includes), saltenv, acc))

LoopFrom(self, saltenv, own) == IncludeLoop(self, own.includes, saltenv, own.acc)

render_pstate(self, sls, saltenv, mods, renderers_arg, defaults_arg) ==
  LoopFrom(self, saltenv, RenderOwn(self, sls, saltenv, mods, renderers_arg, defaults_arg))

\* __gather_avail, lines 349-356: the available data files of every
\* environment of _get_envs().
AvailEnvs(self) == {"base"} \cup self.opts.file_roots
avail(self, saltenv) ==
  SelectSeq(SlsOrder, LAMBDA n : get_state(self, n, saltenv) # Absent)

\* fnmatch.filter(names, pat) for the patterns of the model: a literal name
\* matches itself, '*' matches every name.
fnmatch_filter(names, pat) == SelectSeq(names, LAMBDA n : pat = "*" \/ n = pat)

\* render_pillar, lines 736-750: the files to render for one environment.
RECURSIVE PStateFiles(_, _, _, _)
PStateFiles(self, saltenv, pstates, acc) ==
  IF pstates = <<>> THEN acc
  ELSE
    LET sls_match == Head(pstates)
        known == saltenv \in AvailEnvs(self)
        matched_pstates == IF known THEN fnmatch_filter(avail(self, saltenv), sls_match)
                           ELSE <<>>
    IN PStateFiles(self, saltenv, Tail(pstates),
         [pstatefiles |-> acc.pstatefiles \o
                          (IF matched_pstates # <<>> THEN matched_pstates ELSE <<sls_match>>),
          errors |-> IF known THEN acc.errors
                     ELSE Append(acc.errors,
                            Str(<<"No matching pillar environment for environment '",
                                  saltenv, "' found">>))])

\* render_pillar, lines 762-781: the state of one file merged into the
\* pillar.  acc: exc, pillar, mods, errors, log.
MergeState(acc, r) ==
  IF r.exc # "" THEN [acc EXCEPT !.exc = r.exc]
  ELSE [exc |-> "",
        pillar |-> IF r.state # None /\ IsDict(r.state) THEN merge(acc.pillar, r.state)
                   ELSE acc.pillar,
        mods |-> r.mods,
        errors |-> acc.errors \o r.errors,
        log |-> acc.log \o r.log]

\* render_pillar, lines 752-781: the files of one environment, in order.
RECURSIVE RenderFiles(_, _, _, _)
RenderFiles(self, saltenv, pstatefiles, acc) ==
  IF pstatefiles = <<>> \/ acc.exc # "" THEN acc
  ELSE RenderFiles(self, saltenv, Tail(pstatefiles),
         MergeState(acc, render_pstate(self, Head(pstatefiles), saltenv, acc.mods,
                                       Rend(acc.pillar), None)))

\* render_pillar, lines 734-781: one environment of the matches
RenderEnv(self, saltenv, files, acc) ==
  RenderFiles(self, saltenv, files.pstatefiles,
              [acc EXCEPT !.mods = {}, !.errors = files.errors])

RECURSIVE RenderEnvs(_, _, _, _)
RenderEnvs(self, matches, i, acc) ==
  IF i > Len(matches) \/ acc.exc # "" THEN acc
  ELSE RenderEnvs(self, matches, i + 1,
         RenderEnv(self, matches[i].key,
                   PStateFiles(self, matches[i].key, matches[i].val,
                               [pstatefiles |-> <<>>, errors |-> acc.errors]),
                   acc))

\* render_pillar, lines 729-783, from the pillar of line 729
RenderFrom(self, matches, pillar, errors) ==
  IF IsRaise(pillar)
  THEN [exc |-> pillar.e, pillar |-> None, errors |-> errors, log |-> <<>>]
  ELSE RenderEnvs(self, matches, 1,
                  [exc |-> "", pillar |-> pillar, mods |-> {}, errors |-> errors,
                   log |-> <<>>])

\* render_pillar, lines 724-783.  errors_arg is None or the list to extend.
render_pillar(self, matches, errors_arg) ==
  RenderFrom(self, matches, merge(self.opts.pillar, self.pillar_override),
             IF errors_arg = None THEN <<>> ELSE errors_arg.l)

\* ------------------------------------------------ external sources
\* one record of the call log: how an ext_pillar function was called
Called(key, args, kwargs) == [key |-> key, args |-> args, kwargs |-> kwargs]

\* _external_pillar_data, lines 785-811: the call made for {key: val}
call_with_given_pillar(self, pillar, val, pillar_dirs, key) ==
  Called(key, <<Word(self.minion_id), self.opts.pillar>>, val)

external_pillar_call(self, pillar, val, pillar_dirs, key) ==
  LET id == Word(self.minion_id) IN
  IF IsDict(val) THEN Called(key, <<id, pillar>>, val)
  ELSE IF IsList(val)
  THEN IF key = "git" THEN Called(key, <<id, val, pillar_dirs>>, Empty)
       ELSE Called(key, <<id, pillar>> \o val.l, Empty)
  ELSE IF key = "git" THEN Called(key, <<id, val, pillar_dirs>>, Empty)
       ELSE Called(key, <<id, pillar, val>>, Empty)

\* ext_pillar, lines 875-877: a source's result merged into the pillar
MergeExtUnder(pillar, ext) == merge(ext, pillar)

MergeExt(pillar, ext) == merge(pillar, ext)

\* ext_pillar, lines 859-874: the exception of a source is caught and
\* becomes one error
LetFailureThrough(acc, call, key, ext) ==
  [acc EXCEPT !.calls = Append(@, call), !.exc = ext.e]

CatchFailure(acc, call, key, ext) ==
  [acc EXCEPT !.calls = Append(@, call),
              !.errors = Append(@, Str(<<"Failed to load ext_pillar ", key, ": ", ext.e>>))]

\* ext_pillar, lines 845-877: the entries of opts['ext_pillar'] from the
\* i-th on.  returned[i] is what the function of entry i returns when it is
\* called: a value, or Raise(..).  acc: exc, pillar, errors, calls, fatal.
RECURSIVE RunExtPillars(_, _, _, _, _)
RunExtPillars(self, i, pillar_dirs, returned, acc) ==
  LET runs == self.opts.ext_pillar.l IN
  IF i > Len(runs) \/ acc.exc # "" THEN acc
  ELSE
    LET run == runs[i] IN
    IF ~IsDict(run)
    THEN [acc EXCEPT !.pillar = Empty, !.fatal = TRUE,
                     !.errors = Append(@, Str(<<"The \"ext_pillar\" option is malformed">>))]
    ELSE IF Keys(run) = {} THEN [acc EXCEPT !.exc = "StopIteration"]
    ELSE
      LET key == CHOOSE n \in Keys(run) : TRUE
          val == run.d[key]
          ext == returned[i]
          merged == MergeExt(acc.pillar, ext)
          call == external_pillar_call(self, acc.pillar, val, pillar_dirs, key)
      IN IF key \in self.opts.exclude_ext_pillar \/ key \notin self.ext_pillars
         THEN RunExtPillars(self, i + 1, pillar_dirs, returned, acc)
         ELSE IF IsRaise(ext)
         THEN RunExtPillars(self, i + 1, pillar_dirs, returned,
                            CatchFailure(acc, call, key, ext))
         ELSE IF ~Truthy(ext)
         THEN RunExtPillars(self, i + 1, pillar_dirs, returned,
                            [acc EXCEPT !.calls = Append(@, call)])
         ELSE IF IsRaise(merged)
         THEN [acc EXCEPT !.exc = merged.e, !.calls = Append(@, call)]
         ELSE RunExtPillars(self, i + 1, pillar_dirs, returned,
                [acc EXCEPT !.pillar = merged, !.calls = Append(@, call)])

\* ext_pillar, lines 846-849: a malformed entry returns the empty pillar
DropOnMalformed(r) == IF r.fatal THEN [r EXCEPT !.pillar = Empty] ELSE r

\* ext_pillar, lines 813-878.  opts.ext_pillar is None when the option is
\* not set.  The on-demand git fetch of lines 819-833 is left out: it does
\* not touch the pillar.
ext_pillar(self, pillar, pillar_dirs, errors_arg, returned) ==
  LET errors == IF errors_arg = None THEN <<>> ELSE errors_arg.l
      start == [exc |-> "", pillar |-> pillar, errors |-> errors, calls |-> <<>>,
                fatal |-> FALSE]
      with_override == IF Truthy(self.pillar_override)
                       THEN merge(pillar, self.pillar_override)
                       ELSE pillar
  IN IF self.opts.ext_pillar = None THEN start
     ELSE IF ~IsList(self.opts.ext_pillar)
     THEN [start EXCEPT !.errors = Append(@, Str(<<"The \"ext_pillar\" option is malformed">>))]
     ELSE IF IsRaise(with_override) THEN [start EXCEPT !.exc = with_override.e]
     ELSE DropOnMalformed(RunExtPillars(self, 1, pillar_dirs, returned,
                                        [start EXCEPT !.pillar = with_override]))

\* ------------------------------------------------------- decryption
\* salt.utils.traverse_dict(data, key, None, delimiter) over the split key
RECURSIVE traverse(_, _)
traverse(data, path) ==
  IF path = <<>> THEN data
  ELSE IF IsDict(data) /\ Head(path) \in Keys(data)
       THEN traverse(data.d[Head(path)], Tail(path))
       ELSE None

\* ptr[child] = ret for the container ptr found at path (an in-place
\* change, seen through the tree that holds the container)
RECURSIVE SetAt(_, _, _)
SetAt(data, path, ret) ==
  IF path = <<>> THEN ret
  ELSE IF IsDict(data) /\ (Len(path) = 1 \/ Head(path) \in Keys(data))
       THEN Put(data, Head(path), SetAt(Get(data, Head(path)), Tail(path), ret))
       ELSE data

\* what the decrypt renderer makes of a value: a scalar becomes its plain
\* text (here the negated number), a container is decrypted leaf by leaf
RECURSIVE decrypted(_)
decrypted(v) ==
  CASE v.k = "scalar" -> Scalar(0 - v.s)
    [] v.k = "dict" -> Dict([y \in Keys(v) |-> decrypted(v.d[y])])
    [] v.k = "list" -> List([i \in 1..Len(v.l) |-> decrypted(v.l[i])])
    [] OTHER -> v

\* decrypt_pillar, lines 936-981: the keys of opts['decrypt_pillar'] from the
\* i-th on.  failing is the set of positions whose renderer raises.  A
\* hashable value is replaced in its parent, a container is changed in
\* place: either way the tree holds the decrypted value at the path.
\* decrypt_pillar, lines 942-944: the path does not resolve (ptr is None)
NeverMissing(ptr) == FALSE

NotPresent(ptr) == ptr = None

RECURSIVE DecryptKeys(_, _, _, _)
DecryptKeys(self, i, failing, acc) ==
  LET keys == self.opts.decrypt_pillar IN
  IF i > Len(keys) THEN acc
  ELSE
    LET key == keys[i].key
        path == split(key.t, self.opts.decrypt_pillar_delimiter)
        ptr == traverse(acc.pillar, path)
    IN IF NotPresent(ptr) THEN DecryptKeys(self, i + 1, failing, acc)
       ELSE IF i \in failing
       THEN DecryptKeys(self, i + 1, failing,
              [acc EXCEPT !.errors = Append(@, Str(<<"Failed to decrypt pillar key '",
                                                     Text(key), "': ", "exc">>))])
       ELSE DecryptKeys(self, i + 1, failing,
              [acc EXCEPT !.pillar = SetAt(@, path, decrypted(ptr))])

\* decrypt_pillar, lines 924-982: the pillar as the call leaves it, and the
\* errors it returns.  opts.decrypt_pillar is the sequence of the
\* [key, val] entries of the option, empty when it is not set.
decrypt_pillar(self, pillar, failing) ==
  DecryptKeys(self, 1, failing, [pillar |-> pillar, errors |-> <<>>])

\* ---------------------------------------------------- compile_pillar
\* the sanitized opts that pillar_opts attaches under 'master'
master_opts(self) ==
  Dict([file_roots |-> Word("actual_file_roots"), saltversion |-> Word("__version__")])

\* compile_pillar, lines 890-893: the rendered pillar merged over the
\* external pillar that ext_pillar_first put into opts['pillar']
MergeExtFirstOver(self, pillar) == merge(pillar, self.opts.pillar)

MergeRendered(self, pillar) == merge(self.opts.pillar, pillar)

\* compile_pillar, lines 916-917: the override merged in again
KeepWithoutOverride(self, pillar) == pillar

ReMergeOverride(self, pillar) ==
  IF Truthy(self.pillar_override) THEN merge(pillar, self.pillar_override) ELSE pillar

\* compile_pillar, line 893: the rendered pillar merged with opts['pillar']
MergedFirst(self_first, first, under) ==
  LET merged == MergeRendered(self_first, under.pillar)
  IN IF under.exc # ""
     THEN [exc |-> under.exc, pillar |-> None, errors |-> <<>>, self |-> self_first,
           calls |-> first.calls, log |-> under.log]
     ELSE [exc |-> IF IsRaise(merged) THEN merged.e ELSE "", pillar |-> merged,
           errors |-> under.errors, self |-> self_first,
           calls |-> first.calls, log |-> under.log]

\* compile_pillar, lines 887-892: opts['pillar'] is what the external
\* sources gave, self.rend is rebuilt, and the data files are rendered
RenderUnder(self, self_first, matches, first) ==
  IF first.exc # ""
  THEN [exc |-> first.exc, pillar |-> None, errors |-> <<>>, self |-> self,
        calls |-> first.calls, log |-> <<>>]
  ELSE MergedFirst(self_first, first,
                   render_pillar(self_first, matches, List(first.errors)))

ExtFirstFrom(self, matches, first) ==
  RenderUnder(self, [self EXCEPT !.opts.pillar = first.pillar,
                                 !.rend = Rend(first.pillar)], matches, first)

\* compile_pillar, lines 886-893: ext_pillar_first
ExtFirst(self, matches, pillar_dirs, returned) ==
  ExtFirstFrom(self, matches,
               ext_pillar(self, self.pillar_override, pillar_dirs, None, returned))

\* compile_pillar, lines 897-898: the external sources applied to the
\* rendered pillar
ExtApplied(self, files, last) ==
  [exc |-> last.exc, pillar |-> last.pillar, errors |-> last.errors,
   self |-> self, calls |-> last.calls, log |-> files.log]

ExtLastFrom(self, ext, pillar_dirs, returned, files) ==
  IF files.exc # ""
  THEN [exc |-> files.exc, pillar |-> None, errors |-> <<>>, self |-> self,
        calls |-> <<>>, log |-> files.log]
  ELSE IF ext
  THEN ExtApplied(self, files,
                  ext_pillar(self, files.pillar, pillar_dirs, List(files.errors), returned))
  ELSE [exc |-> "", pillar |-> files.pillar, errors |-> files.errors,
        self |-> self, calls |-> <<>>, log |-> files.log]

\* compile_pillar, lines 894-901: the data files first
ExtLast(self, matches, ext, pillar_dirs, returned) ==
  ExtLastFrom(self, ext, pillar_dirs, returned, render_pillar(self, matches, None))

\* compile_pillar, lines 885-901: matches, data files and external sources,
\* in the order ext_pillar_first selects.  self is the object as the stage
\* leaves it.
RenderAndExt(self, top, ext, pillar_dirs, returned) ==
  IF ext /\ self.opts.ext_pillar_first
  THEN ExtFirst(self, top_matches(self, top), pillar_dirs, returned)
  ELSE ExtLast(self, top_matches(self, top), ext, pillar_dirs, returned)

\* compile_pillar, lines 903-914: pillar_opts and the errors attached
\* lines 903-910: pillar['master'] = mopts
AttachSnapshot(self, pillar) ==
  IF self.opts.pillar_opts THEN Put(pillar, "master", master_opts(self)) ELSE pillar

\* lines 911-914: pillar['_errors'] = errors
AttachDiagnostics(pillar, errors) ==
  IF errors # <<>> THEN Put(pillar, "_errors", List(errors)) ELSE pillar

AttachErrors(self, pillar, errors) ==
  AttachDiagnostics(AttachSnapshot(self, pillar), errors)

\* compile_pillar, lines 920-921:
\* pillar.setdefault('_errors', []).extend(decrypt_errors)
ExtendErrors(pillar, decrypt_errors) ==
  IF decrypt_errors = <<>> THEN pillar
  ELSE IF ~HasKey(pillar, "_errors")
  THEN Put(pillar, "_errors", List(decrypt_errors))
  ELSE IF IsList(pillar.d["_errors"])
  THEN Put(pillar, "_errors", List(pillar.d["_errors"].l \o decrypt_errors))
  ELSE Raise("AttributeError")

\* compile_pillar, lines 919-922.  accumulated: every error the call has
\* collected.
Decrypted(errors, dec) ==
  LET final == ExtendErrors(dec.pillar, dec.errors)
  IN [exc |-> IF IsRaise(final) THEN final.e ELSE "",
      ret |-> final,
      accumulated |-> errors \o dec.errors]

\* compile_pillar, lines 902-922: what is done to the pillar of the stages
\* above.
Assemble(self, body, top_errors, failing) ==
  Decrypted(body.errors \o top_errors,
            decrypt_pillar(self,
                           ReMergeOverride(self, AttachErrors(self, body.pillar,
                                                              body.errors \o top_errors)),
                           failing))

Finished(body, end) ==
  [exc |-> end.exc, ret |-> IF end.exc = "" THEN end.ret ELSE None,
   self |-> body.self, calls |-> body.calls, log |-> body.log,
   accumulated |-> end.accumulated]

CompileBody(t, body, failing) ==
  IF body.exc # ""
  THEN [exc |-> body.exc, ret |-> None, self |-> body.self, calls |-> body.calls,
        log |-> body.log, accumulated |-> <<>>]
  ELSE Finished(body, Assemble(body.self, body, t.errors, failing))

\* compile_pillar, lines 885-922, with the top and the errors of get_top
CompileFromTop(self, t, ext, pillar_dirs, returned, failing) ==
  IF t.exc # ""
  THEN [exc |-> t.exc, ret |-> None, self |-> self, calls |-> <<>>, log |-> <<>>,
        accumulated |-> <<>>]
  ELSE CompileBody(t, RenderAndExt([self EXCEPT !.ignored_pillars = t.ignored_pillars],
                                   t.top, ext, pillar_dirs, returned),
                   failing)

\* compile_pillar, lines 880-922.  envs: the order in which the set of
\* _get_envs() is iterated; returned, failing: what the external sources
\* and the decrypt renderer do when called.
compile_pillar(self, ext, pillar_dirs, envs, returned, failing) ==
  CompileFromTop(self, get_top(self, envs), ext, pillar_dirs, returned, failing)

\* ------------------------------------------------------------- state
\* The Pillar object: its opts (the copy __gen_opts makes), pillar_override,
\* ignored_pillars and rend.
VARIABLES opts, pillar_override, ignored_pillars, rend
\* Its collaborators: what the file client and the renderer give for the top
\* file and the data files of each environment, what each entry of
\* ext_pillar returns when called, and the decrypt_pillar keys whose
\* renderer raises.
VARIABLES top_files, sls_files, returned, failing
\* The tree handed to a method that is called on its own (decrypt_pillar,
\* ext_pillar): None while no such call is made.
VARIABLES given_pillar
\* The ext argument of the constructor (on-demand external source data):
\* None when it is not given.
VARIABLES ext_arg
\* The call: pc is "constructed", then "returned" (ret is the pillar) or
\* "raised" (exc is the exception); calls and log are the external sources
\* called and the data files rendered, in order; accumulated is every error
\* the call collected.
VARIABLES pc, ret, exc, calls, log, accumulated
\* sort_top_targets: its arguments and what it returned.
VARIABLES top, orders, sorted_top
\* PillarCache: the store behind self.cache, the key of the last call and the
\* underlying compiles made so far, in order.
VARIABLES cache, request, fetched
\* Callers that share one opts mapping or one cache and run concurrently:
\* for each of them its request, its position and what it holds; empty while
\* a single caller is followed.
VARIABLES threads
\* render_pstate followed call by call: the frames of the calls in flight,
\* innermost last, and the set mods that all of them share.
VARIABLES frames, visited

pillarVars == <<opts, pillar_override, ignored_pillars, rend>>
worldVars == <<top_files, sls_files, returned, failing, given_pillar, ext_arg, threads,
               frames, visited>>
callVars == <<pc, ret, exc, calls, log, accumulated>>
sortVars == <<top, orders, sorted_top>>
cacheVars == <<cache, request, fetched>>
vars == <<pillarVars, worldVars, callVars, sortVars, cacheVars>>

\* the object the methods are called on.  An included top file is fetched
\* with client.get_state like a data file, so top_includes are the files
\* of sls_files.
Self ==
  [opts |-> opts, saltenv |-> "", minion_id |-> "minion",
   pillar_override |-> pillar_override, ignored_pillars |-> ignored_pillars,
   rend |-> rend, matcher |-> {"*"}, ext_pillars |-> {"s1", "s2"},
   top_files |-> top_files, top_includes |-> sls_files, sls_files |-> sls_files]

\* the orders in which a set can be iterated
Orders(S) == {o \in [1..Cardinality(S) -> S] : \A i, j \in DOMAIN o : o[i] = o[j] => i = j}
SeqsUpTo(S, n) == UNION {[1..m -> S] : m \in 0..n}

\* ------------------------------------------------------------ inputs
\* The leaves are told apart by where they come from.
DefaultLeaf == Scalar(10)
OverrideLeaf == Scalar(20)
FooLeaf == Scalar(31)
BarLeaf == Scalar(32)
ExtLeaf(i) == Scalar(40 + i)

DefaultPillars == {Empty, One("k", DefaultLeaf)}
Overrides == {Empty, One("k", OverrideLeaf)}

\* top files of 'base': one that fails to render, two that are no mapping
\* of targets, and targets naming foo (and bar), with and without
\* ignore_missing, for 'base' and for 'dev', which has no pillar root; the
\* last one names foo under '*' and, with ignore_missing, under 'web*',
\* which does not match the minion
Section(saltenv, comps) ==
  Frag(<<[key |-> saltenv, val |-> Targets(<<[key |-> "*", val |-> Comps(comps)]>>)]>>, None)
TopChoices ==
  { Raise("render"),
    [k |-> "list"],
    Frag(<<[key |-> "base", val |-> None]>>, None),
    Section("base", <<Sls("foo"), Sls("bar")>>),
    Section("base", <<Meta(FALSE, NoOrder, TRUE), Sls("foo")>>),
    Section("dev", <<Sls("foo")>>),
    Frag(<<[key |-> "base",
            val |-> Targets(<<[key |-> "*", val |-> Comps(<<Sls("foo")>>)],
                              [key |-> "web*",
                               val |-> Comps(<<Meta(FALSE, NoOrder, TRUE), Sls("foo")>>)]>>)]>>,
         None) }

\* data files: missing, failing to render, rendering to a list, to a tree,
\* and to a tree that includes bar
NonMapping == List(<<Scalar(1)>>)
FooChoices ==
  { Absent, Raise("render"), NonMapping, One("k", FooLeaf),
    Dict([k |-> FooLeaf, include |-> List(<<Word("bar")>>)]) }
BarChoices == { Absent, NonMapping, One("k", BarLeaf) }

\* ext_pillar: not set, or at most n entries, each {s1: {}}, {s2: {}} or a
\* string
ExtRun(name) == One(name, Empty)
ExtEntries == {ExtRun("s1"), ExtRun("s2"), Word("s1")}
ExtChoices(n) == {None} \cup {List(l) : l \in SeqsUpTo(ExtEntries, n)}
\* the tree entry i returns: the key k, which every source sets, and a key
\* of its own
ExtKey(i) == "e" \o ToString(i)
ExtTree(i) == Dict([y \in {"k", ExtKey(i)} |-> ExtLeaf(i)])
\* entry i returns its tree, or raises
Returns(runs) ==
  {r \in [1..Len(runs) -> {None, Raise("Exception")} \cup {ExtTree(i) : i \in 1..Len(runs)}] :
     \A i \in 1..Len(runs) :
        IF IsDict(runs[i]) THEN r[i] \in {Raise("Exception"), ExtTree(i)}
        ELSE r[i] = None}

\* decrypt_pillar: not set, or the key k
DecryptChoices == {<<>>, <<[key |-> Word("k"), val |-> Word("gpg")]>>}

\* the opts of a master with the pillar root 'base'
Opts(default, first, ext, decrypt) ==
  [pillarenv |-> "", file_roots |-> {"base"}, pillar_roots |-> {"base"},
   pillar_source_merging_strategy |-> "smart", pillar |-> default,
   pillar_safe_render_error |-> TRUE, ext_pillar_first |-> first,
   ext_pillar |-> ext, exclude_ext_pillar |-> {}, pillar_opts |-> FALSE,
   decrypt_pillar |-> decrypt, decrypt_pillar_delimiter |-> ":"]

Files(foo, bar) ==
  [e \in {"base"} |-> [n \in SlsNames |-> IF n = "foo" THEN foo ELSE bar]]

\* a Pillar object after __init__ (constructed without ext), before any call
Constructed ==
  /\ ext_arg = None
  /\ ignored_pillars = <<>>
  /\ rend = Rend(opts.pillar)
  /\ returned \in (IF IsList(opts.ext_pillar) THEN Returns(opts.ext_pillar.l) ELSE {<<>>})
  /\ failing \in SUBSET (1..Len(opts.decrypt_pillar))
  /\ pc = "constructed"
  /\ ret = None
  /\ exc = ""
  /\ calls = <<>>
  /\ log = <<>>
  /\ accumulated = <<>>

NoSort == top = <<>> /\ orders = <<>> /\ sorted_top = <<>>
NoCache == cache = Empty /\ request = None /\ fetched = <<>>
\* no tree is handed over, a single caller is followed, and render_pstate
\* is not followed call by call
NoGiven == given_pillar = None /\ threads = <<>> /\ frames = <<>> /\ visited = {}

\* every top file and data file, at most one external source
Init ==
  /\ \E first \in BOOLEAN, default \in DefaultPillars,
        ext \in ExtChoices(1) \ {List(<<ExtRun("s2")>>)}, decrypt \in DecryptChoices :
       opts = Opts(default, first, ext, decrypt)
  /\ pillar_override \in Overrides
  /\ top_files \in [{"base"} -> TopChoices]
  /\ \E foo \in FooChoices, bar \in BarChoices : sls_files = Files(foo, bar)
  /\ Constructed
  /\ NoGiven
  /\ NoSort
  /\ NoCache

\* the call returns r.ret or raises r.exc, and leaves the object as r.self
Return(r) ==
  /\ pc' = IF r.exc = "" THEN "returned" ELSE "raised"
  /\ ret' = r.ret
  /\ exc' = r.exc
  /\ opts' = r.self.opts
  /\ ignored_pillars' = r.self.ignored_pillars
  /\ rend' = r.self.rend
  /\ calls' = r.calls
  /\ log' = r.log
  /\ accumulated' = r.accumulated

\* Pillar.compile_pillar(), called once on the object
CompilePillar ==
  /\ pc = "constructed"
  /\ \E envs \in Orders(AvailEnvs(Self)) :
       Return(compile_pillar(Self, TRUE, None, envs, returned, failing))
  /\ UNCHANGED <<pillar_override, worldVars, sortVars, cacheVars>>

Next == CompilePillar

Spec == Init /\ [][Next]_vars

\* -------------------------------------------------- external sources
\* one top file naming foo and bar, foo missing or setting k, and every
\* ext_pillar list of at most MaxExt entries
InitExt ==
  /\ \E first \in BOOLEAN, default \in DefaultPillars, ext \in ExtChoices(MaxExt),
        decrypt \in DecryptChoices :
       opts = Opts(default, first, ext, decrypt)
  /\ pillar_override \in Overrides
  /\ top_files = [e \in {"base"} |-> Section("base", <<Sls("foo"), Sls("bar")>>)]
  /\ \E foo \in {Absent, One("k", FooLeaf)} : sls_files = Files(foo, Absent)
  /\ Constructed
  /\ NoGiven
  /\ NoSort
  /\ NoCache

SpecExt == InitExt /\ [][Next]_vars

\* ---------------------------------------------------------- includes
\* the string "p1:p2:...:pn" of a path, as the pieces str.split sees
KeyPath(n) == [i \in 1..n |-> "p" \o ToString(i)]
KeyString(path) ==
  Str([i \in 1..(2 * Len(path) - 1) |-> IF i % 2 = 1 THEN path[(i + 1) \div 2] ELSE ":"])

\* an include of bar: by name, as {bar: {}}, with an empty key and with
\* the key of a path of 1..MaxKey segments
IncludeChoices ==
  { Word("bar"), One("bar", Empty), One("bar", One("key", Str(<<>>))) }
  \cup { One("bar", One("key", KeyString(KeyPath(n)))) : n \in 1..MaxKey }

\* foo sets k or p1 and includes bar
Including(own, inc) == Dict([y \in {own, "include"} |->
                               IF y = own THEN FooLeaf ELSE List(<<inc>>)])
IncludingChoices == { Including(own, inc) : own \in {"k", "p1"}, inc \in IncludeChoices }

\* bar: missing, a list, the empty tree, a tree of one and of two keys
IncludedChoices ==
  { Absent, NonMapping, Empty, One("k", BarLeaf), Dict([k |-> BarLeaf, x |-> BarLeaf]) }

InitInclude ==
  /\ \E first \in BOOLEAN, default \in DefaultPillars :
       opts = Opts(default, first, None, <<>>)
  /\ pillar_override \in Overrides
  /\ top_files \in [{"base"} -> { Section("base", <<Sls("foo")>>),
                                  Section("base", <<Sls("foo"), Sls("bar")>>) }]
  /\ \E foo \in IncludingChoices, bar \in IncludedChoices : sls_files = Files(foo, bar)
  /\ Constructed
  /\ NoGiven
  /\ NoSort
  /\ NoCache

SpecInclude == InitInclude /\ [][Next]_vars

\* -------------------------------------------------- sort_top_targets
\* the merged tops merge_tops hands to sort_top_targets: 'base' with 1 to
\* MaxTargets targets, 'dev' with none or one; every target has its recorded
\* order, in 0..MaxOrder, and a body of its own
TargetNames == {"t" \o ToString(i) : i \in 1..MaxTargets}
Distinct(sq) == \A i, j \in 1..Len(sq) : sq[i] = sq[j] => i = j
TargetSeqs(lo, hi) == {sq \in SeqsUpTo(TargetNames, hi) : Len(sq) >= lo /\ Distinct(sq)}
Body(tgt) == <<Meta(TRUE, NoOrder, FALSE), Sls(tgt)>>
TopOf(sq) == [i \in 1..Len(sq) |-> [key |-> sq[i], val |-> Body(sq[i])]]
OrdersOf(sq, o) == [i \in 1..Len(sq) |-> [key |-> sq[i], val |-> o[i]]]
EnvOf(saltenv, body) == IF body = <<>> THEN <<>> ELSE <<[key |-> saltenv, val |-> body]>>

InitSort ==
  /\ \E base \in TargetSeqs(1, MaxTargets), dev \in TargetSeqs(0, 1) :
       \E ob \in [1..Len(base) -> 0..MaxOrder], od \in [1..Len(dev) -> 0..MaxOrder] :
          /\ top = EnvOf("base", TopOf(base)) \o EnvOf("dev", TopOf(dev))
          /\ orders = EnvOf("base", OrdersOf(base, ob)) \o EnvOf("dev", OrdersOf(dev, od))
  /\ sorted_top = <<>>
  /\ opts = Opts(Empty, FALSE, None, <<>>)
  /\ pillar_override = Empty
  /\ top_files = [e \in {"base"} |-> Absent]
  /\ sls_files = Files(Absent, Absent)
  /\ Constructed
  /\ NoGiven
  /\ NoCache

\* Pillar.sort_top_targets(top, orders)
SortTopTargets ==
  /\ pc = "constructed"
  /\ sorted_top' = sort_top_targets(top, orders)
  /\ pc' = "sorted"
  /\ UNCHANGED <<pillarVars, worldVars, ret, exc, calls, log, accumulated, top, orders,
                 cacheVars>>

NextSort == SortTopTargets

SpecSort == InitSort /\ [][NextSort]_vars

\* -------------------------------------------------------- PillarCache
\* PillarCache.__init__, lines 189-214: the fields compile_pillar reads.
\* saltenv is None or a name.
PillarCache(minion_id, saltenv) ==
  [minion_id |-> minion_id,
   saltenv |-> IF saltenv = None THEN "base" ELSE Text(saltenv)]

\* fetch_pillar, lines 222-236: a fresh Pillar for the minion and the
\* saltenv, compiled over the files the master holds at the time
fetch_pillar(self, tops, files) ==
  compile_pillar([Self EXCEPT !.minion_id = self.minion_id, !.saltenv = self.saltenv,
                              !.top_files = tops, !.sls_files = files],
                 TRUE, None, <<"base">>, <<>>, {})

\* compile_pillar, line 256: the minion's first entry
StoreMinion(store, minion_id, saltenv, fresh_pillar) ==
  Put(store, minion_id, One(saltenv, fresh_pillar))

\* compile_pillar, line 251: one more saltenv of a minion the cache knows
StoreEnv(store, minion_id, saltenv, fresh_pillar) ==
  Put(store, minion_id, Put(store.d[minion_id], saltenv, fresh_pillar))

\* compile_pillar, lines 242-244: the cache holds the minion and the saltenv
NeverHit(store, minion_id, saltenv) == FALSE

IsHit(store, minion_id, saltenv) ==
  HasKey(store, minion_id) /\ HasKey(store.d[minion_id], saltenv)

\* compile_pillar, line 247: return self.cache[self.minion_id][self.saltenv]
HitWithOverride(self, store) ==
  merge(store.d[self.minion_id].d[self.saltenv], self.pillar_override)

HitResult(self, store) == store.d[self.minion_id].d[self.saltenv]

\* compile_pillar, lines 238-260.  fresh is what fetch_pillar() does if it
\* is called.  The result: what the call returns or raises, the store as it
\* leaves it, and whether fetch_pillar was called.
cached_compile_pillar(self, store, fresh) ==
  IF IsHit(store, self.minion_id, self.saltenv)
  THEN [exc |-> "", ret |-> HitResult(self, store), cache |-> store,
        fetched |-> FALSE]
  ELSE IF fresh.exc # ""
  THEN [exc |-> fresh.exc, ret |-> None, cache |-> store, fetched |-> TRUE]
  ELSE [exc |-> "", ret |-> fresh.ret,
        cache |-> IF HasKey(store, self.minion_id)
                  THEN StoreEnv(store, self.minion_id, self.saltenv, fresh.ret)
                  ELSE StoreMinion(store, self.minion_id, self.saltenv, fresh.ret),
        fetched |-> TRUE]

\* the minions and the saltenv arguments of the calls
Minions == {"m1", "m2"}
SaltenvArgs == {None, Word("base"), Word("dev")}
\* the top file and the data file foo at the time of a call: a top file that
\* is a list or names foo, foo setting k to one of two values
CacheTops == { [k |-> "list"], Section("base", <<Sls("foo")>>) }
CacheFoos == { One("k", FooLeaf), One("k", BarLeaf) }

InitCache ==
  /\ cache = Empty
  /\ request = None
  /\ fetched = <<>>
  /\ opts = Opts(Empty, FALSE, None, <<>>)
  /\ pillar_override = Empty
  /\ top_files = [e \in {"base"} |-> Absent]
  /\ sls_files = Files(Absent, Absent)
  /\ Constructed
  /\ NoGiven
  /\ NoSort

\* what a call does to the state: r is the result of the call, self its key
Served(self, r) ==
  /\ r.fetched => Len(fetched) < MaxFetch
  /\ cache' = r.cache
  /\ request' = self
  /\ fetched' = IF r.fetched
                THEN Append(fetched, [minion_id |-> self.minion_id,
                                      saltenv |-> self.saltenv, exc |-> r.exc])
                ELSE fetched
  /\ ret' = r.ret
  /\ exc' = r.exc
  /\ pc' = IF r.exc # "" THEN "raised" ELSE IF r.fetched THEN "stored" ELSE "hit"

Serve(self, tops, foo) ==
  Served(self, cached_compile_pillar(self, cache,
                                     fetch_pillar(self, [e \in {"base"} |-> tops],
                                                  Files(foo, Absent))))

\* PillarCache(opts, grains, minion_id, saltenv).compile_pillar(): one call,
\* begun after the call before it has ended
PillarCacheCompile ==
  /\ \E minion_id \in Minions, saltenv \in SaltenvArgs, tops \in CacheTops,
        foo \in CacheFoos :
       Serve(PillarCache(minion_id, saltenv), tops, foo)
  /\ UNCHANGED <<pillarVars, worldVars, calls, log, accumulated, sortVars>>

NextCache == PillarCacheCompile

SpecCache == InitCache /\ [][NextCache]_vars

\* ------------------------------------------------------ decrypt_pillar
\* the trees decrypt_pillar is given, and the paths decrypt_pillar names:
\* up to MaxDecrypt of k, a:b, a:c and x
GivenTrees ==
  { Empty, One("k", FooLeaf), One("a", BarLeaf), One("a", One("b", FooLeaf)),
    Dict([k |-> FooLeaf, a |-> One("b", BarLeaf)]) }
DecryptPaths == { <<"k">>, <<"a", "b">>, <<"a", "c">>, <<"x">> }
DecryptEntry(path) == [key |-> KeyString(path), val |-> Word("gpg")]
DecryptLists ==
  { [i \in 1..Len(sq) |-> DecryptEntry(sq[i])] : sq \in SeqsUpTo(DecryptPaths, MaxDecrypt) }

InitDecrypt ==
  /\ \E decrypt \in DecryptLists : opts = Opts(Empty, FALSE, None, decrypt)
  /\ pillar_override = Empty
  /\ top_files = [e \in {"base"} |-> Absent]
  /\ sls_files = Files(Absent, Absent)
  /\ given_pillar \in GivenTrees
  /\ threads = <<>> /\ frames = <<>> /\ visited = {}
  /\ Constructed
  /\ NoSort
  /\ NoCache

\* Pillar.decrypt_pillar(pillar): ret is the tree as the call leaves it,
\* accumulated the errors it returns
Decrypt(r) ==
  /\ pc' = "returned"
  /\ ret' = r.pillar
  /\ accumulated' = r.errors

DecryptPillar ==
  /\ pc = "constructed"
  /\ Decrypt(decrypt_pillar(Self, given_pillar, failing))
  /\ UNCHANGED <<pillarVars, worldVars, exc, calls, log, sortVars, cacheVars>>

NextDecrypt == DecryptPillar

SpecDecrypt == InitDecrypt /\ [][NextDecrypt]_vars

\* ---------------------------------------------------------- ext_pillar
\* ext_pillar called on its own.  The option is not set, is a string, or
\* is a list of at most MaxExt entries: {s1: {}}, {s2: {}}, {s3: {}} (s3 is
\* no registered source), the empty mapping and a string.
ExtCallEntries == {ExtRun("s1"), ExtRun("s2"), ExtRun("s3"), Empty, Word("s1")}
ExtCallChoices ==
  {None, Word("s1")} \cup {List(l) : l \in SeqsUpTo(ExtCallEntries, MaxExt)}
Excludes == { {}, {"s1"} }
GivenToExt == { Empty, One("g", DefaultLeaf) }

InitExtPillar ==
  /\ \E ext \in ExtCallChoices, exclude \in Excludes :
       opts = [Opts(Empty, FALSE, ext, <<>>) EXCEPT !.exclude_ext_pillar = exclude]
  /\ pillar_override \in Overrides
  /\ top_files = [e \in {"base"} |-> Absent]
  /\ sls_files = Files(Absent, Absent)
  /\ given_pillar \in GivenToExt
  /\ threads = <<>> /\ frames = <<>> /\ visited = {}
  /\ Constructed
  /\ NoSort
  /\ NoCache

\* what the call leaves: the returned pair (pillar, errors) or the exception,
\* and the sources called
Applied(r) ==
  /\ pc' = IF r.exc = "" THEN "returned" ELSE "raised"
  /\ ret' = IF r.exc = "" THEN r.pillar ELSE None
  /\ exc' = r.exc
  /\ accumulated' = r.errors
  /\ calls' = r.calls

\* Pillar.ext_pillar(pillar, pillar_dirs)
ExtPillar ==
  /\ pc = "constructed"
  /\ Applied(ext_pillar(Self, given_pillar, None, None, returned))
  /\ UNCHANGED <<pillarVars, worldVars, log, sortVars, cacheVars>>

NextExtPillar == ExtPillar

SpecExtPillar == InitExtPillar /\ [][NextExtPillar]_vars

\* ------------------------------------------------------ remote pillar
\* RemotePillar and AsyncRemotePillar.  The object holds opts (with
\* 'environment' set to saltenv), ext, minion_id and pillar_override; the
\* channel answers a request with a decoded reply or raises.
Load(self) ==
  [id |-> self.minion_id, saltenv |-> self.opts.environment,
   pillarenv |-> self.opts.pillarenv, pillar_override |-> self.pillar_override,
   ver |-> "2", cmd |-> "_pillar",
   ext |-> IF Truthy(self.ext) THEN self.ext ELSE None]

\* RemotePillar.compile_pillar, lines 148-171.  reply is what
\* channel.crypted_transfer_decode_dictentry gives: a value or Raise(..).
remote_compile_pillar(self, reply) ==
  IF IsRaise(reply) THEN [exc |-> reply.e, ret |-> None, calls |-> <<Load(self)>>]
  ELSE IF ~IsDict(reply) THEN [exc |-> "", ret |-> Empty, calls |-> <<Load(self)>>]
  ELSE [exc |-> "", ret |-> reply, calls |-> <<Load(self)>>]

\* AsyncRemotePillar.compile_pillar, lines 97-126: the coroutine run to its
\* end.
async_remote_compile_pillar(self, reply) ==
  IF IsRaise(reply)
  THEN [exc |-> "SaltClientError", ret |-> None, calls |-> <<Load(self)>>]
  ELSE IF ~IsDict(reply)
  THEN [exc |-> "SaltClientError", ret |-> None, calls |-> <<Load(self)>>]
  ELSE [exc |-> "", ret |-> reply, calls |-> <<Load(self)>>]

\* the object the remote methods are called on
RemoteSelf ==
  [opts |-> opts, ext |-> ext_arg, minion_id |-> "minion",
   pillar_override |-> pillar_override]

\* what the master's reply decodes to, or the transport's exception
Replies ==
  { Raise("SaltReqTimeoutError"), None, Empty, Word("error"), NonMapping,
    One("k", FooLeaf) }
RemoteEnvs == {"", "base", "dev"}
OnDemand == { None, One("git", List(<<Word("remote")>>)) }

InitRemote ==
  /\ \E saltenv \in RemoteEnvs, pillarenv \in RemoteEnvs :
       opts = [environment |-> saltenv, pillarenv |-> pillarenv]
  /\ pillar_override \in Overrides
  /\ ext_arg \in OnDemand
  /\ \E reply \in Replies : returned = <<reply>>
  /\ ignored_pillars = <<>>
  /\ rend = None
  /\ top_files = [e \in {"base"} |-> Absent]
  /\ sls_files = Files(Absent, Absent)
  /\ failing = {}
  /\ pc = "constructed" /\ ret = None /\ exc = "" /\ calls = <<>> /\ log = <<>>
  /\ accumulated = <<>>
  /\ NoGiven
  /\ NoSort
  /\ NoCache

\* the call returns r.ret or raises r.exc, having sent r.calls; log names
\* the class of the client that was called
Replied(r) ==
  /\ pc' = IF r.exc = "" THEN "returned" ELSE "raised"
  /\ ret' = r.ret
  /\ exc' = r.exc
  /\ calls' = r.calls

\* RemotePillar(...).compile_pillar()
RemoteCompilePillar ==
  /\ pc = "constructed"
  /\ Replied(remote_compile_pillar(RemoteSelf, returned[1]))
  /\ log' = <<"RemotePillar">>
  /\ UNCHANGED <<pillarVars, worldVars, accumulated, sortVars, cacheVars>>

\* AsyncRemotePillar(...).compile_pillar(), run to completion
AsyncRemoteCompilePillar ==
  /\ pc = "constructed"
  /\ Replied(async_remote_compile_pillar(RemoteSelf, returned[1]))
  /\ log' = <<"AsyncRemotePillar">>
  /\ UNCHANGED <<pillarVars, worldVars, accumulated, sortVars, cacheVars>>

NextRemote == RemoteCompilePillar \/ AsyncRemoteCompilePillar

SpecRemote == InitRemote /\ [][NextRemote]_vars

\* ------------------------------------------------------- __gen_opts
\* __valid_on_demand_ext_pillar, lines 315-347.  on_demand is the option
\* on_demand_ext_pillar: Absent (the default []), a list of names, or a
\* value on which the test 'x not in on_demand' raises TypeError (None, a
\* number).
SomeNameAllowed(self_ext, on_demand) ==
  /\ IsDict(self_ext)
  /\ on_demand # Absent /\ IsList(on_demand)
  /\ \E x \in Keys(self_ext) : Contains(on_demand.l, Word(x))

valid_on_demand_ext_pillar(self_ext, on_demand) ==
  /\ IsDict(self_ext)
  /\ Keys(self_ext) # {} => (on_demand = Absent \/ IsList(on_demand))
  /\ LET allowed == IF on_demand = Absent THEN <<>> ELSE on_demand.l
         invalid_on_demand == {x \in Keys(self_ext) : ~Contains(allowed, Word(x))}
     IN invalid_on_demand = {}

\* __gen_opts, lines 383-388: the ext_pillar option of the object's opts.
\* configured is None when opts_in has no ext_pillar.
gen_ext_pillar(configured, self_ext, on_demand) ==
  IF Truthy(self_ext) /\ valid_on_demand_ext_pillar(self_ext, on_demand)
  THEN IF configured = None THEN List(<<self_ext>>)
       ELSE IF IsList(configured) THEN List(Append(configured.l, self_ext))
       ELSE Raise("AttributeError")
  ELSE configured

\* the ext argument, the allow-list and the configured ext_pillar
ExtArgs ==
  { None, Empty, Word("git"), List(<<One("git", Empty)>>), One("git", Empty),
    One("libvirt", Empty), Dict([git |-> Empty, libvirt |-> Empty]),
    Dict([git |-> Empty, virtkey |-> Empty]) }
AllowLists ==
  { Absent, None, Scalar(1), List(<<>>), List(<<Word("git")>>),
    List(<<Word("git"), Word("libvirt")>>) }
Configured == { None, List(<<>>), List(<<ExtRun("s1")>>), Word("s1") }

\* the opts handed to Pillar(opts, grains, minion_id, saltenv, ext=...)
InitGenOpts ==
  /\ \E configured \in Configured, on_demand \in AllowLists :
       opts = [ext_pillar |-> configured, on_demand_ext_pillar |-> on_demand]
  /\ ext_arg \in ExtArgs
  /\ pillar_override = Empty
  /\ ignored_pillars = <<>>
  /\ rend = None
  /\ top_files = [e \in {"base"} |-> Absent]
  /\ sls_files = Files(Absent, Absent)
  /\ returned = <<>>
  /\ failing = {}
  /\ pc = "new" /\ ret = None /\ exc = "" /\ calls = <<>> /\ log = <<>>
  /\ accumulated = <<>>
  /\ NoGiven
  /\ NoSort
  /\ NoCache

\* Pillar.__init__, line 277: self.opts = self.__gen_opts(opts, ...)
GenOptsDone(effective) ==
  /\ pc' = IF IsRaise(effective) THEN "raised" ELSE "constructed"
  /\ exc' = IF IsRaise(effective) THEN effective.e ELSE ""
  /\ opts' = IF IsRaise(effective) THEN opts ELSE [opts EXCEPT !.ext_pillar = effective]

GenOpts ==
  /\ pc = "new"
  /\ GenOptsDone(gen_ext_pillar(opts.ext_pillar, ext_arg, opts.on_demand_ext_pillar))
  /\ UNCHANGED <<pillar_override, ignored_pillars, rend, worldVars, ret, calls, log,
                 accumulated, sortVars, cacheVars>>

NextGenOpts == GenOpts

SpecGenOpts == InitGenOpts /\ [][NextGenOpts]_vars

\* ------------------------------------------------------------ get_tops
\* get_tops called on an object with the pillar roots 'base' and 'dev'.
\* The top file of an environment is missing, fails to render, or names tt
\* under '*', with or without including the file a; a is missing, fails to
\* render, or names ta, with or without including b; b is missing or names
\* tb.
TopNaming(saltenv, name, include) ==
  Frag(<<[key |-> saltenv, val |-> Targets(<<[key |-> "*", val |-> Comps(<<Sls(name)>>)]>>)]>>,
       include)
TopsOf(saltenv) ==
  { Absent, Raise("render"), TopNaming(saltenv, "tt", None),
    TopNaming(saltenv, "tt", Names(<<"a">>)) }
IncludedA(saltenv) ==
  { Absent, Raise("render"), TopNaming(saltenv, "ta", None),
    TopNaming(saltenv, "ta", Names(<<"b">>)) }
IncludedB(saltenv) == { Absent, TopNaming(saltenv, "tb", None) }
TopEnvs == {"base", "dev"}

InitTops ==
  /\ opts = [Opts(Empty, FALSE, None, <<>>) EXCEPT !.file_roots = TopEnvs,
                                                     !.pillar_roots = TopEnvs]
  /\ pillar_override = Empty
  /\ \E tb \in TopsOf("base"), td \in TopsOf("dev") :
       top_files = [e \in TopEnvs |-> IF e = "base" THEN tb ELSE td]
  /\ \E a \in IncludedA("base"), b \in IncludedB("base") :
       sls_files = [e \in TopEnvs |-> [n \in {"a", "b"} |-> IF n = "a" THEN a ELSE b]]
  /\ Constructed
  /\ NoGiven
  /\ NoSort
  /\ NoCache

\* the call returns (tops, errors): ret is tops, accumulated is errors, and
\* log is the order in which the environments were scanned
Gathered(r, envs) ==
  /\ pc' = IF r.exc = "" THEN "returned" ELSE "raised"
  /\ exc' = r.exc
  /\ ret' = r.tops
  /\ accumulated' = r.errors
  /\ log' = envs

\* Pillar.get_tops()
GetTops ==
  /\ pc = "constructed"
  /\ \E envs \in Orders(AvailEnvs(Self)) : Gathered(get_tops(Self, envs), envs)
  /\ UNCHANGED <<pillarVars, worldVars, calls, sortVars, cacheVars>>

NextTops == GetTops

SpecTops == InitTops /\ [][NextTops]_vars

\* ---------------------------------------------------------- merge_tops
\* merge_tops called, as get_top calls it, on the tops get_tops returned.
\* Besides the top files of get_tops above, a top file may hold a match
\* entry before its name and include a.
TopMatching(saltenv) ==
  Frag(<<[key |-> saltenv,
          val |-> Targets(<<[key |-> "*",
                             val |-> Comps(<<Meta(TRUE, NoOrder, FALSE), Sls("tt")>>)]>>)]>>,
       Names(<<"a">>))

InitMergeTops ==
  /\ opts = [Opts(Empty, FALSE, None, <<>>) EXCEPT !.file_roots = TopEnvs,
                                                     !.pillar_roots = TopEnvs]
  /\ pillar_override = Empty
  /\ \E tb \in TopsOf("base") \cup {TopMatching("base")}, td \in TopsOf("dev") :
       top_files = [e \in TopEnvs |-> IF e = "base" THEN tb ELSE td]
  /\ \E a \in IncludedA("base"), b \in IncludedB("base") :
       sls_files = [e \in TopEnvs |-> [n \in {"a", "b"} |-> IF n = "a" THEN a ELSE b]]
  /\ Constructed
  /\ NoGiven
  /\ NoSort
  /\ NoCache

\* the call returns the sorted merge; the object's ignored_pillars is extended
Merged(r) ==
  /\ pc' = IF r.exc = "" THEN "merged" ELSE "raised"
  /\ exc' = r.exc
  /\ sorted_top' = r.top
  /\ orders' = r.orders
  /\ ignored_pillars' = r.ignored_pillars

\* Pillar.merge_tops(tops)
MergeTops ==
  /\ pc = "returned"
  /\ Merged(merge_tops(ret, ignored_pillars))
  /\ UNCHANGED <<opts, pillar_override, rend, worldVars, ret, calls, log, accumulated,
                 top, cacheVars>>

NextMergeTops == GetTops \/ MergeTops

SpecMergeTops == InitMergeTops /\ [][NextMergeTops]_vars

\* ------------------------------------------- the stages of compile_pillar
\* compile_pillar followed statement by statement: pc names the stage that
\* ran last, ret holds the local variable pillar, accumulated the local
\* errors (top_errors until they are appended to the errors of the body),
\* sorted_top the top of get_top.  pillar_opts may be set, and the override
\* may hold the keys the closing stages write.
ClosingOverrides ==
  { Empty, One("k", OverrideLeaf), One("_errors", List(<<Word("mine")>>)),
    One("master", OverrideLeaf) }

InitStages ==
  /\ \E first \in BOOLEAN, snapshot \in BOOLEAN,
        ext \in {None, List(<<ExtRun("s1")>>)}, decrypt \in DecryptChoices :
       opts = [Opts(Empty, first, ext, decrypt) EXCEPT !.pillar_opts = snapshot]
  /\ pillar_override \in ClosingOverrides
  /\ top_files \in [{"base"} -> {Raise("render"), Section("base", <<Sls("foo"), Sls("bar")>>)}]
  /\ \E foo \in {Raise("render"), One("k", FooLeaf)} : sls_files = Files(foo, One("k", BarLeaf))
  /\ Constructed
  /\ NoGiven
  /\ NoSort
  /\ NoCache

\* line 884: top, top_errors = self.get_top()
TopResolved(t) ==
  /\ pc' = IF t.exc = "" THEN "top" ELSE "raised"
  /\ exc' = t.exc
  /\ sorted_top' = t.top
  /\ accumulated' = t.errors
  /\ ignored_pillars' = t.ignored_pillars

ResolveTops ==
  /\ pc = "constructed"
  /\ \E envs \in Orders(AvailEnvs(Self)) : TopResolved(get_top(Self, envs))
  /\ UNCHANGED <<opts, pillar_override, rend, worldVars, ret, calls, log, top, orders,
                 cacheVars>>

\* lines 885-902: matches, data files and external sources, then
\* errors.extend(top_errors)
BodyDone(body) ==
  /\ pc' = IF body.exc = "" THEN "rendered" ELSE "raised"
  /\ exc' = body.exc
  /\ ret' = body.pillar
  /\ accumulated' = body.errors \o accumulated
  /\ opts' = body.self.opts
  /\ ignored_pillars' = body.self.ignored_pillars
  /\ rend' = body.self.rend
  /\ calls' = body.calls
  /\ log' = body.log

RenderStates ==
  /\ pc = "top"
  /\ BodyDone(RenderAndExt(Self, sorted_top, TRUE, None, returned))
  /\ UNCHANGED <<pillar_override, worldVars, sortVars, cacheVars>>

\* a closing stage leaves the pillar as next, or raises
Stage(done, next) ==
  /\ pc' = IF IsRaise(next) THEN "raised" ELSE done
  /\ exc' = IF IsRaise(next) THEN next.e ELSE ""
  /\ ret' = IF IsRaise(next) THEN None ELSE next
  /\ UNCHANGED <<pillarVars, worldVars, calls, log, sortVars, cacheVars>>

\* lines 903-910
Snapshot ==
  /\ pc = "rendered"
  /\ Stage("snapshot", AttachSnapshot(Self, ret))
  /\ UNCHANGED accumulated

\* lines 911-914
AttachDiagnosticsStage ==
  /\ pc = "snapshot"
  /\ Stage("diagnosed", AttachDiagnostics(ret, accumulated))
  /\ UNCHANGED accumulated

\* lines 916-917
OverrideStage ==
  /\ pc = "diagnosed"
  /\ Stage("overridden", ReMergeOverride(Self, ret))
  /\ UNCHANGED accumulated

\* lines 919-922
DecryptDone(end) ==
  /\ pc' = IF end.exc = "" THEN "returned" ELSE "raised"
  /\ exc' = end.exc
  /\ ret' = IF end.exc = "" THEN end.ret ELSE None
  /\ accumulated' = end.accumulated

DecryptStage ==
  /\ pc = "overridden"
  /\ DecryptDone(Decrypted(accumulated, decrypt_pillar(Self, ret, failing)))
  /\ UNCHANGED <<pillarVars, worldVars, calls, log, sortVars, cacheVars>>

NextStages ==
  \/ ResolveTops
  \/ RenderStates
  \/ Snapshot
  \/ AttachDiagnosticsStage
  \/ OverrideStage
  \/ DecryptStage

SpecStages == InitStages /\ [][NextStages]_vars

\* ------------------------------------------------- a shared opts mapping
\* Two callers construct a pillar object from one opts mapping and compile,
\* their constructor and compile_pillar calls interleaved.  opts is the
\* mapping the callers pass in; "" stands for None.  A thread holds its
\* request (class, saltenv, pillarenv, grains), its position, the opts
\* its object keeps (self.opts: "shared" when it is the caller's mapping
\* itself) and the environment and pillarenv its compile used.
Classes == {"Pillar", "RemotePillar", "AsyncRemotePillar"}
ThreadIds == {1, 2}

\* Pillar.__init__, lines 275-277: pillarenv_from_saltenv
FromSaltenv(opts_in, saltenv, pillarenv) ==
  IF pillarenv = "" /\ opts_in.pillarenv_from_saltenv
  THEN [opts_in EXCEPT !.pillarenv = saltenv] ELSE opts_in

\* __gen_opts, lines 362-374: the deep copy and what is set in it
private_opts(opts_in, grains, saltenv, pillarenv) ==
  [opts_in EXCEPT !.file_client = "local",
                  !.grains = grains,
                  !.environment = IF saltenv # "" THEN saltenv ELSE @,
                  !.pillarenv = IF pillarenv # "" THEN pillarenv ELSE @]

\* Pillar.__init__, lines 286-287: opts['grains'] = grains
LocalGrains(opts_in, grains) ==
  IF opts_in.file_client = "local" THEN [opts_in EXCEPT !.grains = grains] ELSE opts_in

\* RemotePillar.__init__, lines 135-142 (AsyncRemotePillar, 84-91):
\* self.opts = opts, then the writes through it
remote_opts(opts_in, saltenv, pillarenv) ==
  [opts_in EXCEPT !.environment = saltenv,
                  !.pillarenv = IF pillarenv # "" THEN pillarenv ELSE @]

\* the constructor: the caller's mapping as it leaves it, and self.opts
Construct(cls, opts_in, grains, saltenv, pillarenv) ==
  IF cls = "Pillar"
  THEN [caller |-> LocalGrains(FromSaltenv(opts_in, saltenv, pillarenv), grains),
        self_opts |-> private_opts(FromSaltenv(opts_in, saltenv, pillarenv), grains,
                                   saltenv, pillarenv),
        shared |-> FALSE]
  ELSE [caller |-> remote_opts(opts_in, saltenv, pillarenv),
        self_opts |-> remote_opts(opts_in, saltenv, pillarenv),
        shared |-> TRUE]

\* what compile_pillar reads: self.opts['environment'], self.opts['pillarenv']
Uses(self_opts) == [saltenv |-> self_opts.environment, pillarenv |-> self_opts.pillarenv]

Request(i, cls, pillarenv) ==
  [cls |-> cls, saltenv |-> "s" \o ToString(i), pillarenv |-> pillarenv,
   grains |-> "g" \o ToString(i), pc |-> "new", shared |-> FALSE,
   self_opts |-> None, used |-> None]

InitShared ==
  /\ \E configured \in {"", "cfg"}, from_saltenv \in BOOLEAN,
        file_client \in {"local", "remote"} :
       opts = [environment |-> "", pillarenv |-> configured,
               pillarenv_from_saltenv |-> from_saltenv, file_client |-> file_client,
               grains |-> ""]
  /\ \E c \in [ThreadIds -> Classes], p \in [ThreadIds -> BOOLEAN] :
       threads = [i \in ThreadIds |->
                    Request(i, c[i], IF p[i] THEN "p" \o ToString(i) ELSE "")]
  /\ pillar_override = Empty
  /\ ignored_pillars = <<>>
  /\ rend = None
  /\ top_files = [e \in {"base"} |-> Absent]
  /\ sls_files = Files(Absent, Absent)
  /\ returned = <<>>
  /\ failing = {}
  /\ given_pillar = None
  /\ ext_arg = None
  /\ frames = <<>>
  /\ visited = {}
  /\ pc = "constructed" /\ ret = None /\ exc = "" /\ calls = <<>> /\ log = <<>>
  /\ accumulated = <<>>
  /\ NoSort
  /\ NoCache

Constructs(i, built) ==
  /\ opts' = built.caller
  /\ threads' = [threads EXCEPT ![i].pc = "constructed",
                                ![i].shared = built.shared,
                                ![i].self_opts = built.self_opts]

\* thread i: cls(opts, grains, minion_id, saltenv, pillarenv=pillarenv)
ThreadConstruct(i) ==
  /\ threads[i].pc = "new"
  /\ Constructs(i, Construct(threads[i].cls, opts, threads[i].grains,
                             threads[i].saltenv, threads[i].pillarenv))
  /\ UNCHANGED <<pillar_override, ignored_pillars, rend, top_files, sls_files, returned,
                 failing, given_pillar, ext_arg, frames, visited, callVars, sortVars,
                 cacheVars>>

\* thread i: compile_pillar() on its object
ThreadCompile(i) ==
  /\ threads[i].pc = "constructed"
  /\ threads' = [threads EXCEPT
                   ![i].pc = "returned",
                   ![i].used = Uses(IF threads[i].shared THEN opts
                                    ELSE threads[i].self_opts)]
  /\ UNCHANGED <<pillarVars, top_files, sls_files, returned, failing, given_pillar,
                 ext_arg, frames, visited, callVars, sortVars, cacheVars>>

NextShared ==
  \/ \E i \in ThreadIds : ThreadConstruct(i)
  \/ \E i \in ThreadIds : ThreadCompile(i)

SpecShared == InitShared /\ [][NextShared]_vars

\* ------------------------------------------- render_pstate call by call
\* render_pstate(sls, 'base', set()) on an object whose pillar root holds
\* the files foo, bar and baz, followed one call and one include entry at a
\* time.  A frame is a call in flight: acc is what it has so far (as the
\* include loop keeps it), includes the entries still to go, key and
\* defaults those of the entry whose render is in flight.  The depth of the
\* recursion is capped at MaxDepth.
RenderNames == {"foo", "bar", "baz"}
WithDefaults(name) == One(name, One("defaults", One("d", Scalar(1))))
IncludeLists ==
  { <<Word(n)>> : n \in RenderNames }
  \cup { <<Word(n), Word(m)>> : n \in RenderNames, m \in RenderNames \ {"baz"} }
  \cup { <<WithDefaults("bar")>>, <<WithDefaults("bar"), Word("baz")>> }
RenderChoices(leaf) ==
  { Absent, Raise("render"), NonMapping, One("k", leaf) }
  \cup { Dict([y \in {"k", "include"} |-> IF y = "k" THEN leaf ELSE List(l)]) :
            l \in IncludeLists }

InitRender ==
  /\ opts = Opts(Empty, FALSE, None, <<>>)
  /\ pillar_override = Empty
  /\ top_files = [e \in {"base"} |-> Absent]
  /\ \E foo \in RenderChoices(FooLeaf) \ {Absent, Raise("render"), NonMapping, One("k", FooLeaf)},
        bar \in RenderChoices(BarLeaf), baz \in RenderChoices(Scalar(33)) :
       sls_files = [e \in {"base"} |->
                      [n \in RenderNames |->
                         IF n = "foo" THEN foo ELSE IF n = "bar" THEN bar ELSE baz]]
  /\ ignored_pillars \in {<<>>, <<[key |-> "base", val |-> <<"baz">>]>>}
  /\ rend = Rend(opts.pillar)
  /\ returned = <<>> /\ failing = {} /\ ext_arg = None
  /\ pc = "constructed" /\ ret = None /\ exc = "" /\ calls = <<>> /\ log = <<>>
  /\ accumulated = <<>>
  /\ NoGiven
  /\ NoSort
  /\ NoCache

Frame(own) ==
  [acc |-> own.acc, includes |-> own.includes, key |-> None, defaults |-> Empty]

\* a call begins: the file itself is fetched and rendered, lines 616-695
Entered(outer, own) ==
  /\ frames' = Append(outer, Frame(own))
  /\ visited' = own.acc.mods

\* render_pstate('foo', 'base', set())
RenderPstate ==
  /\ pc = "constructed"
  /\ Entered(<<>>, RenderOwn(Self, "foo", "base", {}, None, None))
  /\ pc' = "rendering"
  /\ UNCHANGED <<pillarVars, top_files, sls_files, returned, failing, given_pillar,
                 ext_arg, threads, ret, exc, calls, log, accumulated, sortVars, cacheVars>>

Innermost == frames[Len(frames)]
Waiting(frame, entry) ==
  [frame EXCEPT !.includes = Tail(@), !.key = EntryKey(entry),
                !.defaults = EntryDefaults(entry, frame.acc.defaults)]

\* lines 697-704: the next entry of the include list names a file that is
\* in mods
SkipInclude ==
  /\ pc = "rendering" /\ Innermost.acc.exc = "" /\ Innermost.includes # <<>>
  /\ AlreadyRendered(EntryName(Head(Innermost.includes)), visited)
  /\ frames' = [frames EXCEPT ![Len(frames)] =
                  [@ EXCEPT !.includes = Tail(@),
                            !.acc.defaults = EntryDefaults(Head(Innermost.includes), @)]]
  /\ UNCHANGED <<pillarVars, top_files, sls_files, returned, failing, given_pillar,
                 ext_arg, threads, visited, callVars, sortVars, cacheVars>>

\* lines 697-709: the next entry names a file that is not in mods, and
\* render_pstate is called for it
NestedRender ==
  /\ pc = "rendering" /\ Innermost.acc.exc = "" /\ Innermost.includes # <<>>
  /\ ~AlreadyRendered(EntryName(Head(Innermost.includes)), visited)
  /\ Len(frames) < MaxDepth
  /\ Entered([frames EXCEPT ![Len(frames)] = Waiting(@, Head(Innermost.includes))],
             RenderOwn(Self, EntryName(Head(Innermost.includes)), "base", visited,
                       EntryDefaults(Head(Innermost.includes), Innermost.acc.defaults),
                       None))
  /\ UNCHANGED <<pillarVars, top_files, sls_files, returned, failing, given_pillar,
                 ext_arg, threads, callVars, sortVars, cacheVars>>

\* lines 709-722: a nested call returns (or raises) and its state is merged
\* into the state of the call that made it
ReturnNested ==
  /\ pc = "rendering" /\ Len(frames) > 1
  /\ Innermost.acc.exc # "" \/ Innermost.includes = <<>>
  /\ frames' = [i \in 1..(Len(frames) - 1) |->
                  IF i < Len(frames) - 1 THEN frames[i]
                  ELSE [frames[i] EXCEPT
                          !.acc = MergeIncluded(@, frames[i].key, frames[i].defaults,
                                                [Innermost.acc EXCEPT !.mods = visited])]]
  /\ UNCHANGED <<pillarVars, top_files, sls_files, returned, failing, given_pillar,
                 ext_arg, threads, visited, callVars, sortVars, cacheVars>>

\* line 722: the outermost call returns state, mods, errors (or raises)
ReturnPstate ==
  /\ pc = "rendering" /\ Len(frames) = 1
  /\ Innermost.acc.exc # "" \/ Innermost.includes = <<>>
  /\ pc' = IF Innermost.acc.exc = "" THEN "returned" ELSE "raised"
  /\ exc' = Innermost.acc.exc
  /\ ret' = IF Innermost.acc.exc = "" THEN Innermost.acc.state ELSE None
  /\ accumulated' = Innermost.acc.errors
  /\ log' = Innermost.acc.log
  /\ frames' = <<>>
  /\ UNCHANGED <<pillarVars, top_files, sls_files, returned, failing, given_pillar,
                 ext_arg, threads, visited, calls, sortVars, cacheVars>>

NextRender ==
  \/ RenderPstate
  \/ SkipInclude
  \/ NestedRender
  \/ ReturnNested
  \/ ReturnPstate

SpecRender == InitRender /\ [][NextRender]_vars
\* a call in flight is not suspended for ever
FairRender == InitRender /\ [][NextRender]_vars /\ WF_vars(NextRender)

\* ------------------------------------------------ _external_pillar_data
\* ext_pillar called with one configured entry {key: val}: key is s1 or
\* git, both registered, val a mapping, a sequence or a scalar.
DispatchArgs ==
  { Empty, One("a", Scalar(1)), Dict([a |-> Scalar(1), b |-> Scalar(2)]),
    List(<<>>), List(<<Scalar(1)>>), List(<<Scalar(1), Scalar(2)>>),
    Scalar(1), Word("url") }
PillarDirs == { None, One("dir", Scalar(7)) }
DispatchSelf == [Self EXCEPT !.ext_pillars = {"s1", "git"}]

InitDispatch ==
  /\ \E key \in {"s1", "git"}, val \in DispatchArgs :
       opts = Opts(Empty, FALSE, List(<<One(key, val)>>), <<>>)
  /\ pillar_override = Empty
  /\ top_files = [e \in {"base"} |-> Absent]
  /\ sls_files = Files(Absent, Absent)
  /\ given_pillar \in GivenToExt
  /\ threads = <<>> /\ frames = <<>> /\ visited = {}
  /\ Constructed
  /\ NoSort
  /\ NoCache

\* Pillar.ext_pillar(pillar, pillar_dirs), which calls
\* _external_pillar_data for the entry
ExtDispatch ==
  /\ pc = "constructed"
  /\ \E pillar_dirs \in PillarDirs :
       Applied(ext_pillar(DispatchSelf, given_pillar, pillar_dirs, None, returned))
  /\ UNCHANGED <<pillarVars, worldVars, log, sortVars, cacheVars>>

NextDispatch == ExtDispatch

SpecDispatch == InitDispatch /\ [][NextDispatch]_vars

\* ------------------------------------------------------------ pillarenv
\* get_tops, merge_tops and top_matches, as compile_pillar calls them, on an
\* object with the pillar roots 'base' and 'dev' and pillarenv set to one
\* of them or to 'qa', which is no pillar root.  A top file is missing,
\* fails to render, or has a section for 'base' and one for 'dev', with or
\* without including a; a is missing or has both sections.
CrossTop(name, include) ==
  Frag(<<[key |-> "base",
          val |-> Targets(<<[key |-> "*", val |-> Comps(<<Sls(name \o "_base")>>)]>>)],
         [key |-> "dev",
          val |-> Targets(<<[key |-> "*", val |-> Comps(<<Sls(name \o "_dev")>>)]>>)]>>,
       include)
CrossTops(saltenv) ==
  { Absent, Raise("render"), CrossTop(saltenv, None), CrossTop(saltenv, Names(<<"a">>)) }

InitPillarenv ==
  /\ \E pillarenv \in {"base", "dev", "qa"} :
       opts = [Opts(Empty, FALSE, None, <<>>) EXCEPT !.file_roots = TopEnvs,
                                                     !.pillar_roots = TopEnvs,
                                                     !.pillarenv = pillarenv]
  /\ pillar_override = Empty
  /\ \E tb \in CrossTops("base"), td \in CrossTops("dev") :
       top_files = [e \in TopEnvs |-> IF e = "base" THEN tb ELSE td]
  /\ \E a \in {Absent, Raise("render"), CrossTop("a", None)} :
       sls_files = [e \in TopEnvs |-> [n \in {"a", "b"} |-> IF n = "a" THEN a ELSE Absent]]
  /\ Constructed
  /\ NoGiven
  /\ NoSort
  /\ NoCache

\* Pillar.top_matches(top), with the top merge_tops returned
TopMatches ==
  /\ pc = "merged"
  /\ ret' = top_matches(Self, sorted_top)
  /\ pc' = "matched"
  /\ UNCHANGED <<pillarVars, worldVars, exc, calls, log, accumulated, sortVars, cacheVars>>

NextPillarenv == GetTops \/ MergeTops \/ TopMatches

SpecPillarenv == InitPillarenv /\ [][NextPillarenv]_vars

\* -------------------------------------------------------- order entries
\* merge_tops on its own (after get_tops) and get_top, for a top file of
\* 'base' with the targets t1 and t2, each with an order entry or none, and
\* a top file of 'dev' with one target.  An order literal is an integer
\* 0..MaxOrder, the string '2', the float 2.7 (n is what int() makes of
\* it), the string 'high', or None.
OrderLiterals ==
  { NoOrder, [ok |-> "numstr", n |-> 2], [ok |-> "float", n |-> 2],
    [ok |-> "badstr", n |-> 0], [ok |-> "none", n |-> 0] }
  \cup { [ok |-> "int", n |-> n] : n \in 0..MaxOrder }
Ordered(tgt, order) ==
  [key |-> tgt, val |-> Comps(<<Meta(FALSE, order, FALSE), Sls(tgt)>>)]

InitOrders ==
  /\ opts = [Opts(Empty, FALSE, None, <<>>) EXCEPT !.file_roots = TopEnvs,
                                                     !.pillar_roots = TopEnvs]
  /\ pillar_override = Empty
  /\ \E o1 \in OrderLiterals, o2 \in OrderLiterals :
       top_files =
         [e \in TopEnvs |->
            IF e = "base"
            THEN Frag(<<[key |-> "base",
                         val |-> Targets(<<Ordered("t1", o1), Ordered("t2", o2)>>)]>>, None)
            ELSE TopNaming("dev", "tt", None)]
  /\ sls_files = [e \in TopEnvs |-> [n \in {"a", "b"} |-> Absent]]
  /\ Constructed
  /\ NoGiven
  /\ NoSort
  /\ NoCache

NextOrders == GetTops \/ MergeTops \/ ResolveTops

SpecOrders == InitOrders /\ [][NextOrders]_vars

\* ------------------------------------------- PillarCache and the request
\* PillarCache calls that differ in pillar_override and pillarenv as well;
\* the pillar root of 'base' names foo, which sets k.
\* calls holds the arguments of the last constructor call.
PillarCacheFor(minion_id, saltenv, override, pillarenv) ==
  [minion_id |-> PillarCache(minion_id, saltenv).minion_id,
   saltenv |-> PillarCache(minion_id, saltenv).saltenv,
   pillar_override |-> override, pillarenv |-> pillarenv]

\* fetch_pillar, lines 222-236: the fresh Pillar gets the override and the
\* pillarenv of the request
fetch_pillar_for(self, tops, files) ==
  compile_pillar([Self EXCEPT !.minion_id = self.minion_id, !.saltenv = self.saltenv,
                              !.pillar_override = self.pillar_override,
                              !.opts.pillarenv = self.pillarenv,
                              !.top_files = tops, !.sls_files = files],
                 TRUE, None, <<"base">>, <<>>, {})

ServeFor(self, tops) ==
  Served(self, cached_compile_pillar(self, cache,
                                     fetch_pillar_for(self, [e \in {"base"} |-> tops],
                                                      Files(One("k", FooLeaf), Absent))))

\* PillarCache(opts, grains, minion_id, saltenv, pillar_override=...,
\* pillarenv=...).compile_pillar()
PillarCacheCompileFor ==
  /\ \E minion_id \in Minions, saltenv \in SaltenvArgs, override \in Overrides,
        pillarenv \in {"", "dev"} :
       /\ ServeFor(PillarCacheFor(minion_id, saltenv, override, pillarenv),
                   Section("base", <<Sls("foo")>>))
       /\ calls' = <<[minion_id |-> minion_id, saltenv |-> saltenv]>>
  /\ UNCHANGED <<pillarVars, worldVars, log, accumulated, sortVars>>

NextCacheFor == PillarCacheCompileFor

SpecCacheFor == InitCache /\ [][NextCacheFor]_vars

\* ------------------------------------------- PillarCache, two threads
\* Two PillarCache objects over one cache, for two environments of minion m1,
\* each compile_pillar() followed statement by statement: the tests of
\* lines 242-244, fetch_pillar(), the store.  The cache is empty, or holds
\* another environment of m1, or another minion.  known is the outcome of
\* the test of line 242, fresh the tree the call returns.
EnvPairs ==
  { p \in SaltenvArgs \X SaltenvArgs :
      PillarCache("m1", p[1]).saltenv # PillarCache("m1", p[2]).saltenv }
StoredBefore ==
  { Empty, One("m1", One("qa", One("k", FooLeaf))),
    One("m2", One("base", One("k", FooLeaf))) }

CacheCall(saltenv) ==
  [pc |-> "start", self |-> PillarCache("m1", saltenv), known |-> FALSE, fresh |-> None]

InitCacheShared ==
  /\ cache \in StoredBefore
  /\ \E p \in EnvPairs : threads = [i \in ThreadIds |-> CacheCall(p[i])]
  /\ request = None
  /\ fetched = <<>>
  /\ opts = Opts(Empty, FALSE, None, <<>>)
  /\ pillar_override = Empty
  /\ top_files = [e \in {"base"} |-> Absent]
  /\ sls_files = Files(Absent, Absent)
  /\ Constructed
  /\ given_pillar = None /\ frames = <<>> /\ visited = {}
  /\ NoSort

UnchangedByThreads ==
  UNCHANGED <<pillarVars, top_files, sls_files, returned, failing, given_pillar, ext_arg,
              frames, visited, callVars, sortVars, request, fetched>>

\* lines 242-247: the two tests, and the return of a hit
Scanned(call, store) ==
  IF IsHit(store, call.self.minion_id, call.self.saltenv)
  THEN [call EXCEPT !.pc = "returned", !.fresh = HitResult(call.self, store)]
  ELSE [call EXCEPT !.pc = "fetching", !.known = HasKey(store, call.self.minion_id)]

CacheScan(i) ==
  /\ threads[i].pc = "start"
  /\ threads' = [threads EXCEPT ![i] = Scanned(threads[i], cache)]
  /\ UNCHANGED cache
  /\ UnchangedByThreads

Fetches(i, r) ==
  threads' = [threads EXCEPT ![i].pc = IF r.exc # "" THEN "raised" ELSE "storing",
                             ![i].fresh = r.ret]

\* lines 250 and 256: fresh_pillar = self.fetch_pillar()
CacheFetch(i) ==
  /\ threads[i].pc = "fetching"
  /\ \E tops \in CacheTops, foo \in CacheFoos :
       Fetches(i, fetch_pillar(threads[i].self, [e \in {"base"} |-> tops],
                               Files(foo, Absent)))
  /\ UNCHANGED cache
  /\ UnchangedByThreads

\* lines 251-253 and 257-260: the store of the branch taken, and the return
CacheStore(i) ==
  /\ threads[i].pc = "storing"
  /\ cache' = IF threads[i].known
              THEN StoreEnv(cache, threads[i].self.minion_id, threads[i].self.saltenv,
                            threads[i].fresh)
              ELSE StoreMinion(cache, threads[i].self.minion_id, threads[i].self.saltenv,
                               threads[i].fresh)
  /\ threads' = [threads EXCEPT ![i].pc = "returned"]
  /\ UnchangedByThreads

NextCacheShared ==
  \/ \E i \in ThreadIds : CacheScan(i)
  \/ \E i \in ThreadIds : CacheFetch(i)
  \/ \E i \in ThreadIds : CacheStore(i)

SpecCacheShared == InitCacheShared /\ [][NextCacheShared]_vars

\* ------------------------------------------------------------ claims
Returned == pc = "returned"

\* the entries of the '_errors' list of a tree that name sls
ErrorsNaming(tree, sls) ==
  IF HasKey(tree, "_errors") /\ IsList(tree.d["_errors"])
  THEN {i \in 1..Len(tree.d["_errors"].l) : Contains(tree.d["_errors"].l[i].t, sls)}
  ELSE {}

\* decrypt_pillar names the key k
DecryptsK == \E i \in 1..Len(opts.decrypt_pillar) : opts.decrypt_pillar[i].key = Word("k")

\* ext_pillar is a list of mappings
WellFormedExt ==
  IsList(opts.ext_pillar) /\ \A i \in 1..Len(opts.ext_pillar.l) : IsDict(opts.ext_pillar.l[i])
\* the entries of ext_pillar whose source returned a tree
ExtGave == {i \in 1..Len(returned) : IsDict(returned[i])}
\* the rendered data files that set k, by their place in the log
FileGave ==
  {l \in 1..Len(log) : LET f == sls_files[log[l].saltenv][log[l].sls]
                       IN IsDict(f) /\ HasKey(f, "k")}
Last(S) == CHOOSE n \in S : \A m \in S : m <= n
LastFileValue == sls_files[log[Last(FileGave)].saltenv][log[Last(FileGave)].sls].d["k"]

\* the targets of the section of saltenv in a top file, as a set of comps
\* lists: all of them, and those that match the minion
TargetsOf(frag, saltenv) ==
  IF frag.k # "dict" THEN {}
  ELSE UNION { IF frag.secs[i].key = saltenv /\ frag.secs[i].val.k = "dict"
               THEN { frag.secs[i].val.tgts[j] : j \in 1..Len(frag.secs[i].val.tgts) }
               ELSE {} : i \in 1..Len(frag.secs) }
Lists(tgt, sls) == tgt.val.k = "list" /\ Contains(tgt.val.l, Sls(sls))
Ignoring(tgt) ==
  tgt.val.k = "list" /\ \E c \in 1..Len(tgt.val.l) : tgt.val.l[c].ignore_missing
\* a matched target without ignore_missing names sls
NamedPlainly(saltenv, sls) ==
  \E tgt \in TargetsOf(top_files["base"], saltenv) :
     tgt.key \in Self.matcher /\ Lists(tgt, sls) /\ ~Ignoring(tgt)
\* some target with ignore_missing names sls
NamedIgnoring(saltenv, sls) ==
  \E tgt \in TargetsOf(top_files["base"], saltenv) : Lists(tgt, sls) /\ Ignoring(tgt)
Missing(saltenv, sls) ==
  saltenv \in opts.pillar_roots /\ sls_files[saltenv][sls] = Absent

\* C1 (as stated): compile_pillar never raises for a content-level failure:
\* whatever the top file, the data files, the external sources and the
\* decrypt renderer do, the call returns a mapping.
C1_NeverRaises == pc # "raised"

\* C2: when pillar_override sets the scalar key k and decrypt_pillar does
\* not name k, the tree compile_pillar returns has k equal to the override's
\* value, under either ordering, whatever the data files, the default
\* pillar and the external sources give to k.
C2_OverrideWins ==
  (Returned /\ HasKey(pillar_override, "k") /\ ~DecryptsK)
     => Get(ret, "k") = pillar_override.d["k"]

C2_Witness ==
  /\ Returned /\ HasKey(pillar_override, "k") /\ ~DecryptsK
  /\ ~opts.ext_pillar_first /\ HasKey(opts.pillar, "k")
  /\ ExtGave # {} /\ FileGave # {}

\* the case of C3 and C4: an external source and a rendered data file both
\* set k, the override does not, and nothing decrypts k
BothSetK ==
  /\ Returned /\ WellFormedExt /\ ExtGave # {} /\ FileGave # {}
  /\ ~HasKey(pillar_override, "k") /\ ~DecryptsK

\* C3 (as stated): under ext_pillar_first, when an external source and a
\* rendered data file both set k and the override does not, the compiled
\* tree holds the external source's value.
C3_ExtFirstExternalWins ==
  (BothSetK /\ opts.ext_pillar_first) => Get(ret, "k") \in {ExtLeaf(i) : i \in ExtGave}

\* C3 (amended): under ext_pillar_first, when an external source and a
\* rendered data file both set k and the override does not, the compiled
\* tree holds the data file's value: the rendered tree is merged over the
\* tree of the external sources.
C3_ExtFirstFileWins ==
  (BothSetK /\ opts.ext_pillar_first) => Get(ret, "k") = LastFileValue

C3_Witness == BothSetK /\ opts.ext_pillar_first /\ Len(calls) = 2

\* C4: under the external-last ordering, when an external source and a
\* rendered data file both set k and the override does not, the compiled
\* tree holds the value of the (last) external source that set it.
C4_ExtLastExternalWins ==
  (BothSetK /\ ~opts.ext_pillar_first) => Get(ret, "k") = ExtLeaf(Last(ExtGave))

C4_Witness == BothSetK /\ ~opts.ext_pillar_first /\ Len(calls) = 2

\* the entries of ext_pillar before the first one that is no mapping, and
\* the source each of them names
RunsCalled ==
  IF ~IsList(opts.ext_pillar) THEN <<>>
  ELSE LET runs == opts.ext_pillar.l
           bad == {i \in 1..Len(runs) : ~IsDict(runs[i])}
       IN IF bad = {} THEN runs
          ELSE SubSeq(runs, 1, (CHOOSE i \in bad : \A j \in bad : i <= j) - 1)
SourceOf(run) == CHOOSE n \in Keys(run) : TRUE

\* C5: ext_pillar calls the configured sources in configuration order; the
\* pillar passed to source i holds the contribution of every source before
\* it that returned a tree; and when several sources set k, the result of
\* ext_pillar (opts['pillar'] under ext_pillar_first, else the compiled tree
\* when neither the override nor decrypt_pillar touches k) holds the value
\* of the last of them.
C5_SourcesInOrder ==
  pc # "constructed" =>
    /\ Len(calls) = Len(RunsCalled)
    /\ \A n \in 1..Len(calls) :
         /\ calls[n].key = SourceOf(RunsCalled[n])
         /\ \A j \in 1..(n - 1) :
              IsDict(returned[j]) => Get(calls[n].args[2], ExtKey(j)) = ExtLeaf(j)
    /\ (Returned /\ WellFormedExt /\ ExtGave # {}) =>
         IF opts.ext_pillar_first
         THEN Get(opts.pillar, "k") = ExtLeaf(Last(ExtGave))
         ELSE (~HasKey(pillar_override, "k") /\ ~DecryptsK)
                 => Get(ret, "k") = ExtLeaf(Last(ExtGave))

C5_Witness ==
  /\ Returned /\ WellFormedExt /\ Len(calls) = 2 /\ ExtGave = {1, 2}
  /\ calls[1].key # calls[2].key

\* C6 (as stated): when a matched target without ignore_missing names a
\* data file that does not exist in an environment with a pillar root, the
\* compiled tree's '_errors' has an entry naming the file, and the tree has
\* no key named after the file.
C6_MissingFileReported ==
  \A sls \in SlsNames :
     (Returned /\ NamedPlainly("base", sls) /\ Missing("base", sls))
        => ErrorsNaming(ret, sls) # {} /\ ~HasKey(ret, sls)

\* C6 (amended): the same, when also no other target of the environment's
\* top names the file with ignore_missing: the ignored set belongs to the
\* environment, not to the target.
C6_MissingUnignoredFileReported ==
  \A sls \in SlsNames :
     (Returned /\ NamedPlainly("base", sls) /\ ~NamedIgnoring("base", sls)
        /\ Missing("base", sls))
        => ErrorsNaming(ret, sls) # {} /\ ~HasKey(ret, sls)

C6_Witness ==
  /\ Returned /\ NamedPlainly("base", "foo") /\ ~NamedIgnoring("base", "foo")
  /\ Missing("base", "foo") /\ ErrorsNaming(ret, "foo") # {}

\* C7: every data file a target with ignore_missing names is in the ignored
\* set of the target's environment, and a missing file of the ignored set
\* gets no '_errors' entry naming it and is never rendered.
C7_IgnoredMissingIsSilent ==
  Returned =>
    \A sls \in SlsNames :
       /\ NamedIgnoring("base", sls) => Contains(OGet(ignored_pillars, "base", <<>>), sls)
       /\ (Contains(OGet(ignored_pillars, "base", <<>>), sls) /\ Missing("base", sls))
             => /\ ErrorsNaming(ret, sls) = {}
                /\ ~HasKey(ret, sls)
                /\ \A l \in 1..Len(log) : log[l].sls # sls

C7_Witness ==
  /\ Returned /\ NamedIgnoring("base", "foo") /\ Missing("base", "foo")
  /\ Contains(OGet(ignored_pillars, "base", <<>>), "foo")

\* the include declared by foo, the key it carries and the tree of bar
FooInclude == sls_files["base"]["foo"].d["include"].l[1]
IncludeKey == IF IsDict(FooInclude) THEN Get(FooInclude.d["bar"], "key") ELSE None
BarTree == sls_files["base"]["bar"]
TopNamesBar == \E tgt \in TargetsOf(top_files["base"], "base") : Lists(tgt, "bar")

\* C8: when foo includes {bar: {key: "p1:...:pn"}} and bar renders to a
\* non-empty tree T, the compiled tree holds T at the path p1, ..., pn (p1
\* outermost) and T's keys are not merged at the top; when the include has
\* no key (or an empty one), T's keys are merged at the top.
C8_IncludeUnderKey ==
  (Returned /\ IsDict(BarTree) /\ Truthy(BarTree)) =>
     /\ \A n \in 1..MaxKey :
          IncludeKey = KeyString(KeyPath(n)) =>
             /\ traverse(ret, KeyPath(n)) = BarTree
             /\ ~TopNamesBar => ~HasKey(ret, "x")
     /\ ~Truthy(IncludeKey) =>
          \A y \in Keys(BarTree) :
             y \notin Keys(pillar_override) => Get(ret, y) = BarTree.d[y]

C8_Witness ==
  /\ Returned /\ IsDict(BarTree) /\ HasKey(BarTree, "x") /\ ~TopNamesBar
  /\ IncludeKey = KeyString(KeyPath(MaxKey))
  /\ traverse(ret, KeyPath(MaxKey)) = BarTree

\* the recorded order of a target, and where a target stands in a body
OrderOf(saltenv, tgt) == OGet(OGet(orders, saltenv, <<>>), tgt, 0)
PlaceOf(targets, tgt) == CHOOSE i \in 1..Len(targets) : targets[i].key = tgt

\* C9: sort_top_targets returns, for every environment of the merged top,
\* the same targets with the same bodies, in an order in which the recorded
\* orders never decrease and targets of equal order keep their relative
\* order; it returns no other environment.
C9_SortedStable ==
  pc = "sorted" =>
    /\ \A j \in 1..Len(sorted_top) : OHas(top, sorted_top[j].key)
    /\ \A i \in 1..Len(top) :
         LET saltenv == top[i].key
             before == top[i].val
             after == OGet(sorted_top, saltenv, <<>>)
         IN /\ Len(after) = Len(before)
            /\ \A a \in 1..Len(before) :
                 \E b \in 1..Len(after) : after[b] = before[a]
            /\ \A a, b \in 1..Len(after) :
                 a < b => OrderOf(saltenv, after[a].key) <= OrderOf(saltenv, after[b].key)
            /\ \A a, b \in 1..Len(before) :
                 (a < b /\ OrderOf(saltenv, before[a].key) = OrderOf(saltenv, before[b].key))
                    => PlaceOf(after, before[a].key) < PlaceOf(after, before[b].key)

C9_Witness ==
  /\ pc = "sorted" /\ Len(top) = 2 /\ Len(top[1].val) = MaxTargets
  /\ \E a, b \in 1..MaxTargets :
       a < b /\ OrderOf("base", top[1].val[a].key) > OrderOf("base", top[1].val[b].key)
  /\ \E a, b \in 1..MaxTargets :
       a < b /\ OrderOf("base", top[1].val[a].key) = OrderOf("base", top[1].val[b].key)
  /\ sorted_top # top

\* the store holds a tree for the key; the key of a compile
Stored(store, minion_id, saltenv) ==
  /\ minion_id \in Keys(store)
  /\ saltenv \in Keys(store.d[minion_id])
KeyOf(f) == [minion_id |-> f.minion_id, saltenv |-> f.saltenv]

PathOf(i) == split(opts.decrypt_pillar[i].key.t, opts.decrypt_pillar_delimiter)
Unresolved == {i \in 1..Len(opts.decrypt_pillar) : traverse(given_pillar, PathOf(i)) = None}
ErrorsAbout(errors, key) == {e \in 1..Len(errors) : Contains(errors[e].t, Text(key))}

\* C11: a path of decrypt_pillar that does not resolve in the tree gets no
\* error, also when its renderer would raise, and creates nothing at its
\* place; when no configured path resolves the call returns no error at all
\* and leaves the tree as it was given.
C11_UnresolvedPathIsSkipped ==
  pc = "returned" =>
    /\ \A i \in Unresolved :
         /\ ErrorsAbout(accumulated, opts.decrypt_pillar[i].key) = {}
         /\ traverse(ret, PathOf(i)) = None
    /\ Unresolved = 1..Len(opts.decrypt_pillar) =>
         ret = given_pillar /\ accumulated = <<>>

C11_Witness ==
  /\ pc = "returned" /\ Len(opts.decrypt_pillar) = MaxDecrypt
  /\ Unresolved = 1..MaxDecrypt /\ failing = 1..MaxDecrypt
  /\ given_pillar = One("a", One("b", FooLeaf)) /\ ret = given_pillar

\* the external-source specification is set and is no list of single-key
\* mappings
SingleKey(run) == IsDict(run) /\ Cardinality(Keys(run)) = 1
InvalidExt ==
  /\ opts.ext_pillar # None
  /\ \/ ~IsList(opts.ext_pillar)
     \/ \E i \in 1..Len(opts.ext_pillar.l) : ~SingleKey(opts.ext_pillar.l[i])
Malformed == Str(<<"The \"ext_pillar\" option is malformed">>)
Fatal(errors) == {e \in 1..Len(errors) : errors[e] = Malformed}

\* C12 (as stated): a structurally invalid ext_pillar option (no list, or
\* an entry that is no single-key mapping) makes ext_pillar return the empty
\* tree and exactly one fatal diagnostic; in every other case the call keeps
\* every key of the tree it was given.
C12_InvalidGivesEmptyTree ==
  pc # "constructed" =>
    IF InvalidExt
    THEN pc = "returned" /\ ret = Empty /\ Cardinality(Fatal(accumulated)) = 1
    ELSE pc = "returned" /\ Fatal(accumulated) = {}
         /\ \A y \in Keys(given_pillar) : HasKey(ret, y)

\* C13 (as stated): both remote clients send one request per call, return
\* the reply when it is a dict and fail with SaltClientError when the
\* transport raises or the reply is no dict.
C13_RemoteFailsWithClientError ==
  pc # "constructed" =>
    /\ Len(calls) = 1
    /\ IF IsDict(returned[1])
       THEN pc = "returned" /\ ret = returned[1]
       ELSE pc = "raised" /\ exc = "SaltClientError"

\* the entries of a well-formed ext_pillar list, by position: those whose
\* source is called (registered and not excluded), and of these the ones
\* whose source raises
ExtRuns == opts.ext_pillar.l
AllSingleKey == IsList(opts.ext_pillar) /\ \A i \in 1..Len(ExtRuns) : SingleKey(ExtRuns[i])
IsCalled(i) ==
  SourceOf(ExtRuns[i]) \in Self.ext_pillars \ opts.exclude_ext_pillar
CalledRuns == SelectSeq([i \in 1..Len(ExtRuns) |-> i], IsCalled)
RaisingRuns == SelectSeq(CalledRuns, LAMBDA i : IsRaise(returned[i]))
FailedToLoad(i) ==
  Str(<<"Failed to load ext_pillar ", SourceOf(ExtRuns[i]), ": ", returned[i].e>>)

\* C14: with a list of single-key entries, ext_pillar calls every registered,
\* not excluded source in order, whatever the sources before it did; each
\* raising source adds exactly one error naming it and merges nothing; an
\* entry whose source is not registered or is excluded is not called, adds
\* no error and merges nothing; every other source's tree is merged.
C14_DispatchIsolated ==
  (pc # "constructed" /\ AllSingleKey) =>
    /\ pc = "returned"
    /\ Len(calls) = Len(CalledRuns)
    /\ \A n \in 1..Len(calls) : calls[n].key = SourceOf(ExtRuns[CalledRuns[n]])
    /\ accumulated = [n \in 1..Len(RaisingRuns) |-> FailedToLoad(RaisingRuns[n])]
    /\ \A i \in 1..Len(ExtRuns) :
         IF IsCalled(i) /\ ~IsRaise(returned[i])
         THEN Get(ret, ExtKey(i)) = ExtLeaf(i)
         ELSE ~HasKey(ret, ExtKey(i))

C14_Witness ==
  /\ pc = "returned" /\ AllSingleKey /\ Len(ExtRuns) = MaxExt
  /\ IsCalled(1) /\ IsRaise(returned[1])
  /\ IsCalled(MaxExt) /\ ~IsRaise(returned[MaxExt])
  /\ Len(accumulated) = 1 /\ HasKey(ret, ExtKey(MaxExt))

\* ext is a mapping whose every source name is in the allow-list
AllNamesAllowed ==
  /\ IsDict(ext_arg)
  /\ opts.on_demand_ext_pillar # Absent /\ IsList(opts.on_demand_ext_pillar)
  /\ \A x \in Keys(ext_arg) : Contains(opts.on_demand_ext_pillar.l, Word(x))

WithoutInclude(frag) == [frag EXCEPT !.include = None]
FragmentsOf(saltenv) == OGet(ret, saltenv, <<>>)
FailedTops == {e \in TopEnvs : IsRaise(top_files[e])}
PrimaryFailed == Str(<<"Rendering Primary Top file failed">>)

\* C16 (as stated): get_tops does not raise; the top file of every
\* environment that renders is in the result, whatever the top files of the
\* other environments do, and every top file that fails to render adds one
\* error.
C16_FailureShortensOneEnvironment ==
  pc # "constructed" =>
    /\ pc = "returned"
    /\ \A e \in TopEnvs :
         top_files[e].k = "dict" =>
            FragmentsOf(e) # <<>> /\ FragmentsOf(e)[1] = WithoutInclude(top_files[e])
    /\ Cardinality({n \in 1..Len(accumulated) : accumulated[n] = PrimaryFailed})
         = Cardinality(FailedTops)

\* the files an environment's top file reaches through include keys: those
\* it includes, and those the included files include
IncludesOf(frag) ==
  IF frag.k = "dict" /\ frag.include # None
  THEN {frag.include.l[i] : i \in 1..Len(frag.include.l)} ELSE {}
Direct(saltenv) == IncludesOf(top_files[saltenv])
Nested(saltenv) == UNION {IncludesOf(sls_files[saltenv][n]) : n \in Direct(saltenv)}
TimesFetched(saltenv, n) ==
  Cardinality({i \in 1..Len(FragmentsOf(saltenv)) :
                 WithoutInclude(FragmentsOf(saltenv)[i]) = WithoutInclude(sls_files[saltenv][n])})

\* C17 (as stated): when every primary top file renders, every file reached
\* through include keys, also through the include key of an included file,
\* is a fragment of its environment exactly once.
C17_IncludesExhausted ==
  (pc = "returned" /\ FailedTops = {}) =>
    \A e \in TopEnvs : \A n \in Direct(e) \cup Nested(e) :
       sls_files[e][n].k = "dict" => TimesFetched(e, n) = 1

\* the fragments handed to merge_tops, in the order it processes them
RECURSIVE Flatten(_)
Flatten(tops) == IF tops = <<>> THEN <<>> ELSE Head(tops).val \o Flatten(Tail(tops))
HandedOver == Flatten(ret)
\* what a fragment lists for a target of an environment
Listed(frag, saltenv, tgt) ==
  LET targets == OGet(frag.secs, saltenv, None)
  IN IF targets = None THEN <<>> ELSE
       LET comps == OGet(targets.tgts, tgt, None) IN IF comps = None THEN <<>> ELSE comps.l
MergedList(saltenv, tgt) == OGet(OGet(sorted_top, saltenv, <<>>), tgt, <<>>)
FragmentsListing(saltenv, tgt) ==
  {i \in 1..Len(HandedOver) : Listed(HandedOver[i], saltenv, tgt) # <<>>}

\* C18 (as stated): the merged list of a target holds the match entries and
\* the data-file names of every fragment that lists the target.
C18_TargetsAccumulate ==
  pc = "merged" =>
    \A e \in TopEnvs : \A i \in FragmentsListing(e, "*") :
       \A c \in 1..Len(Listed(HandedOver[i], e, "*")) :
          Contains(MergedList(e, "*"), Listed(HandedOver[i], e, "*")[c])

\* the strings of the '_errors' list of the returned tree
ReturnedErrors ==
  IF IsDict(ret) /\ HasKey(ret, "_errors") /\ IsList(ret.d["_errors"])
  THEN {ret.d["_errors"].l[i] : i \in 1..Len(ret.d["_errors"].l)} ELSE {}
Accumulated == {accumulated[i] : i \in 1..Len(accumulated)}

\* C19 (as stated): every error the stages of a compile call accumulated is
\* in the '_errors' list of the returned tree, whatever the override holds.
C19_EveryErrorReturned ==
  pc = "returned" => Accumulated \subseteq ReturnedErrors

\* C20 (as stated): top-file resolution comes first, and the closing stages
\* run in the order override, configuration snapshot, diagnostics,
\* decryption: each stage starts from the state its predecessor left.
C20_ClosingOrder ==
  [][ /\ pc' = "top" => pc = "constructed"
      /\ pc' = "overridden" => pc = "rendered"
      /\ pc' = "snapshot" => pc = "overridden"
      /\ pc' = "diagnosed" => pc = "snapshot"
      /\ pc' = "returned" => pc = "diagnosed" ]_vars

\* a thread's compile used the saltenv of its own request and, when its
\* request names a pillarenv, that pillarenv, and never the pillarenv that
\* only the other request names
UsesOwn(i) ==
  /\ threads[i].used.saltenv = threads[i].saltenv
  /\ threads[i].pillarenv # "" => threads[i].used.pillarenv = threads[i].pillarenv
  /\ \A j \in ThreadIds \ {i} :
        threads[j].pillarenv # "" => threads[i].used.pillarenv # threads[j].pillarenv

\* C21 (as stated): no constructor and no compile writes to the opts mapping
\* the callers passed in, and every compile uses the environment and the
\* pillarenv of its own request.
C21_PrivateCopy ==
  [][ /\ opts' = opts
      /\ \A i \in ThreadIds : threads[i].pc = "returned" => UsesOwn(i) ]_vars

\* how often a data file of an environment was handed to compile_template
TimesRendered(sls, saltenv) ==
  Cardinality({i \in 1..Len(log) : log[i].sls = sls /\ log[i].saltenv = saltenv})

\* C22 (as stated): within one environment of one render_pillar call every
\* data file is rendered at most once, named by the top file, included by an
\* earlier file, or both.
C22_RenderedAtMostOnce ==
  pc = "returned" => \A sls \in SlsNames : TimesRendered(sls, "base") <= 1

\* the names a data file includes
IncludedBy(sls) ==
  LET f == sls_files["base"][sls]
  IN IF IsDict(f) /\ HasKey(f, "include")
     THEN {EntryName(f.d["include"].l[i]) : i \in 1..Len(f.d["include"].l)} ELSE {}
Ended == pc \in {"returned", "raised"}

\* C23: render_pstate ends for every include graph over the data files,
\* self-includes and cycles included; mods only grows; the name of a file
\* whose render was attempted is in mods before any of its includes is
\* looked at; and a nested render starts only for a name that is not in
\* mods.
C23_RenderTerminates ==
  /\ <>Ended
  /\ [][ /\ visited \subseteq visited'
         /\ Len(frames') > Len(frames) /\ frames # <<>> =>
               EntryName(Head(Innermost.includes)) \notin visited ]_vars
  /\ [](\A i \in 1..Len(frames) :
           frames[i].acc.log # <<>> => frames[i].acc.log[1].sls \in visited)

\* a cycle through foo and bar, and a file that includes itself, rendered
\* to the end
C23_Witness ==
  /\ pc = "returned"
  /\ "bar" \in IncludedBy("foo") /\ "foo" \in IncludedBy("bar")
  /\ "baz" \in IncludedBy("bar") /\ "baz" \in IncludedBy("baz")
  /\ visited = RenderNames

\* foo is rendered first, and its include list begins with
\* {bar: {defaults: D}}
GivenDefaults == One("d", Scalar(1))
FooIncludesWithDefaults ==
  Head(sls_files["base"]["foo"].d["include"].l) = WithDefaults("bar")
RendersOf(sls) == {i \in 1..Len(log) : log[i].sls = sls}

\* C24 (as stated): the file included with defaults D is rendered with D as
\* its template defaults and with the renderers of the including file; a
\* file included by bare name is rendered with empty defaults and the same
\* renderers, also after an entry that carried defaults.
C24_IncludeDefaults ==
  (pc = "returned" /\ FooIncludesWithDefaults) =>
     /\ \A i \in RendersOf("bar") :
          log[i].defaults = GivenDefaults /\ log[i].renderers = rend
     /\ \A i \in RendersOf("baz") :
          log[i].defaults = Empty /\ log[i].renderers = rend

\* the malformed-file error of a data file, and how often it was collected
NotADictionary(sls) == Str(<<"SLS '", sls, "' does not render to a dictionary">>)
TimesReported(err) == Cardinality({i \in 1..Len(accumulated) : accumulated[i] = err})
\* the rendering of bar is in the compiled tree, under some key path
BarContributes == \E n \in 1..MaxKey : traverse(ret, KeyPath(n)) = BarTree

\* C25 (as stated): when bar renders to a list, the compile returns, every
\* render of bar adds one malformed-file error, and the list is nowhere in
\* the compiled tree, whether bar is included with or without a key.
C25_MalformedContributesNothing ==
  (pc # "constructed" /\ BarTree = NonMapping) =>
     /\ pc = "returned"
     /\ TimesReported(NotADictionary("bar")) = TimesRendered("bar", "base")
     /\ ~BarContributes

\* the configured entry and the call made for it
DispatchKey == CHOOSE n \in Keys(opts.ext_pillar.l[1]) : TRUE
DispatchVal == opts.ext_pillar.l[1].d[DispatchKey]
MinionId == Word("minion")
GitShape(call) ==
  /\ Len(call.args) = 3 /\ call.args[1] = MinionId /\ call.args[2] = DispatchVal
  /\ call.args[3] \in PillarDirs /\ call.kwargs = Empty
ShapeByKind(call) ==
  IF IsDict(DispatchVal)
  THEN call.args = <<MinionId, given_pillar>> /\ call.kwargs = DispatchVal
  ELSE IF IsList(DispatchVal)
  THEN call.args = <<MinionId, given_pillar>> \o DispatchVal.l /\ call.kwargs = Empty
  ELSE call.args = <<MinionId, given_pillar, DispatchVal>> /\ call.kwargs = Empty

\* C26 (as stated): the source is called once; 'git' receives (minion_id,
\* raw args, pillar_dirs) whatever the kind of its args; every other source
\* receives (minion_id, pillar) followed by keyword arguments for a mapping,
\* by the elements of a sequence, or by the scalar.
C26_DispatchShape ==
  pc # "constructed" =>
     /\ Len(calls) = 1 /\ calls[1].key = DispatchKey
     /\ IF DispatchKey = "git" THEN GitShape(calls[1]) ELSE ShapeByKind(calls[1])

\* what get_tops gives for the top file of pillarenv
PrimaryOf(saltenv) ==
  IF top_files[saltenv] = Absent THEN EmptyFrag ELSE WithoutInclude(top_files[saltenv])
IsRoot(saltenv) == saltenv \in opts.pillar_roots

\* C27: with pillarenv set, the tops of get_tops hold nothing but the top
\* file of pillarenv and what it includes, under the key pillarenv; they are
\* empty, and no error is recorded, when pillarenv is no pillar root; and
\* top_matches gives matches for no other environment than pillarenv.
C27_OnlyPillarenv ==
  /\ pc \in {"returned", "merged"} =>
       /\ \A i \in 1..Len(ret) :
            ret[i].key = opts.pillarenv /\ ret[i].val[1] = PrimaryOf(opts.pillarenv)
       /\ ~IsRoot(opts.pillarenv) => ret = <<>> /\ accumulated = <<>>
  /\ pc = "matched" => \A i \in 1..Len(ret) : ret[i].key = opts.pillarenv

\* the merged top has a section for 'base' besides that for pillarenv
\* 'dev', and only the names under 'dev' are matched
C27_Witness ==
  /\ pc = "matched" /\ opts.pillarenv = "dev"
  /\ OHas(sorted_top, "base") /\ OHas(sorted_top, "dev")
  /\ ret = <<[key |-> "dev", val |-> <<"a_dev">>]>>

\* the order entry the top file of 'base' gives a target, and the order the
\* claim has merge_tops record for it
LiteralOf(tgt) == OGet(top_files["base"].secs[1].val.tgts, tgt, None).l[1].order
StatedOrder(literal) == IF literal.ok = "int" THEN literal.n ELSE 0
RecordedOrder(tgt) == OGet(OGet(orders, "base", <<>>), tgt, 0 - 1)

\* C28 (as stated): merge_tops records 0 for a target without an order
\* entry, the integer for an integer entry and 0 for every other entry,
\* and no order entry makes merge_tops raise or get_top lose a target or an
\* environment.
C28_OrderCoercion ==
  /\ pc # "raised"
  /\ pc = "merged" =>
       \A tgt \in {"t1", "t2"} : RecordedOrder(tgt) = StatedOrder(LiteralOf(tgt))
  /\ pc = "top" =>
       /\ OKeys(OGet(sorted_top, "base", <<>>)) \in {<<"t1", "t2">>, <<"t2", "t1">>}
       /\ OKeys(OGet(sorted_top, "dev", <<>>)) = <<"*">>

\* the environment a saltenv argument is keyed as
KeyedAs(saltenv) == IF saltenv = None THEN "base" ELSE Text(saltenv)
SameKey == request'.minion_id = request.minion_id /\ request'.saltenv = request.saltenv

\* C29: a call that hits returns the tree stored under (minion_id,
\* saltenv), None keyed as 'base', and leaves the store as it is; a call
\* for the key of the call before it returns the same tree as that call,
\* whatever the pillar_override and the pillarenv of the two calls.
C29_HitDependsOnKeyOnly ==
  [][ pc' = "hit" =>
        /\ cache' = cache
        /\ ret' = cache.d[calls'[1].minion_id].d[KeyedAs(calls'[1].saltenv)]
        /\ (pc \in {"hit", "stored"} /\ SameKey) => ret' = ret ]_vars

\* a call with saltenv None and an override of k hits the tree that a call
\* for 'base' without override stored: k is not the override's
C29_Witness ==
  /\ pc = "hit" /\ calls[1].saltenv = None
  /\ request.pillar_override = One("k", OverrideLeaf)
  /\ Get(ret, "k") = FooLeaf

BothReturned == \A i \in ThreadIds : threads[i].pc = "returned"
HoldsEntryOf(i) == IsHit(cache, threads[i].self.minion_id, threads[i].self.saltenv)

\* C30: once the two concurrent calls for two environments of one minion
\* have returned, the cache holds the entry of each of them.
C30_BothEntriesKept == BothReturned => \A i \in ThreadIds : HoldsEntryOf(i)

====
